---- MODULE Spec2Model ----
(***************************************************************************)
(* Chunked bot analysis of poe-bot-tester: the chunk endpoint              *)
(* (analyze-bot-chunked/route.ts: POST, processChunk, executeTest, the     *)
(* in-memory session Map) and the page component that drives it            *)
(* (page.tsx: runBotAnalysis, runChunkedAnalysis, handleProgressUpdate).   *)
(*                                                                         *)
(* Time is in milliseconds.  Chunk indexes and the loop index i are        *)
(* 0-based as in the source; TLA+ sequences are 1-based, so the chunk with *)
(* index c is TEST_CHUNKS[c + 1] and the test of iteration i is            *)
(* tests[i + 1].  A session identifier is a number; 0 stands for the       *)
(* null / undefined sessionId, and the identifier the server generates     *)
(* from Date.now() is the value of dateNow, the reading of the clock: it   *)
(* stays the same until time passes.  nextChunk = -1 stands for null.      *)
(***************************************************************************)
EXTENDS Integers, Sequences, FiniteSets, TLC

\* ------------------------------------------------------------------------
\* Static configuration of the chunk endpoint
\* ------------------------------------------------------------------------
TEST_CHUNKS ==
  << [name |-> "metadata",
      tests |-> <<"Fetch bot metadata", "Parse bot information">>,
      category |-> "usability"],
     [name |-> "branding",
      tests |-> <<"Bot name consistency and formatting",
                  "Profile picture appeal and quality",
                  "Brand consistency with model family",
                  "Official verification and credibility">>,
      category |-> "branding"],
     [name |-> "description",
      tests |-> <<"Description clarity for non-technical users",
                  "Advanced behavior documentation",
                  "Limitation documentation">>,
      category |-> "usability"],
     [name |-> "files_basic",
      tests |-> <<"PNG support", "JPEG support", "PDF support">>,
      category |-> "fileSupport"],
     [name |-> "files_advanced",
      tests |-> <<"GIF support", "HEIC support", "TIFF support", "MP4 support">>,
      category |-> "fileSupport"],
     [name |-> "conversation",
      tests |-> <<"Multi-turn conversation coherence",
                  "Response time performance">>,
      category |-> "functionality"],
     [name |-> "error_handling",
      tests |-> <<"Helpful error messages">>,
      category |-> "errorHandling"] >>

\* Order of the keys of SessionData.results, which is the order of
\* Object.values(sessionData.results)
CategoryOrder ==
  <<"branding", "functionality", "usability", "fileSupport", "errorHandling">>

Categories == {CategoryOrder[k] : k \in 1..Len(CategoryOrder)}

MAX_CHUNK_TIME == 8000

InterCheckDelay == 200

MAX_RETRIES == 3

NextChunkDelay == 1000

SeqRange(s) == {s[k] : k \in 1..Len(s)}

ValidChunk(c) == c \in 0..(Len(TEST_CHUNKS) - 1)

ChunkTests(c) == TEST_CHUNKS[c + 1].tests

ChunkCategory(c) == TEST_CHUNKS[c + 1].category

AllTests == UNION {SeqRange(TEST_CHUNKS[k].tests) : k \in 1..Len(TEST_CHUNKS)}

\* The tests of executeTest that await a remote call (fetch); every other
\* test runs to its result without yielding to another request.
NetworkTests ==
  {"Fetch bot metadata", "PNG support", "JPEG support", "PDF support",
   "GIF support", "HEIC support", "TIFF support", "MP4 support",
   "Multi-turn conversation coherence", "Response time performance",
   "Helpful error messages"}

BrandingTests == SeqRange(TEST_CHUNKS[2].tests)

\* ------------------------------------------------------------------------
\* The environment: the bot under test and the remote services.  A profile
\* fixes whether the profile page can be fetched, the score every check
\* computes when its data is available, and how long a remote call of a
\* test takes when it is slow; every remote call can also be fast.  It also
\* holds the API key the user has typed into the page.
\* ------------------------------------------------------------------------
\* The highest score each check can compute
BestScores ==
  [t \in AllTests |->
     CASE t = "Parse bot information" -> 95
       [] t = "Profile picture appeal and quality" -> 90
       [] t = "Description clarity for non-technical users" -> 85
       [] t = "Advanced behavior documentation" -> 90
       [] t = "Limitation documentation" -> 85
       [] t \in {"HEIC support", "TIFF support", "MP4 support"} -> 90
       [] t = "Multi-turn conversation coherence" -> 85
       [] OTHER -> 100]

\* Scores of a bot with an average profile; a score of 0 is a remote call
\* that is answered with an error
TypicalScores ==
  [t \in AllTests |->
     CASE t = "Fetch bot metadata" -> 100
       [] t = "Parse bot information" -> 95
       [] t = "Bot name consistency and formatting" -> 100
       [] t = "Profile picture appeal and quality" -> 80
       [] t = "Brand consistency with model family" -> 75
       [] t = "Official verification and credibility" -> 60
       [] t = "Description clarity for non-technical users" -> 85
       [] t = "Advanced behavior documentation" -> 60
       [] t = "Limitation documentation" -> 70
       [] t = "PNG support" -> 100
       [] t = "JPEG support" -> 50
       [] t = "PDF support" -> 70
       [] t = "GIF support" -> 30
       [] t = "HEIC support" -> 60
       [] t = "TIFF support" -> 60
       [] t = "MP4 support" -> 0
       [] t = "Multi-turn conversation coherence" -> 85
       [] t = "Response time performance" -> 80
       [] OTHER -> 75]

FastTimes == [t \in AllTests |-> IF t \in NetworkTests THEN 100 ELSE 0]

SlowTimes ==
  [t \in AllTests |->
     CASE t = "Fetch bot metadata" -> 4000
       [] t = "PNG support" -> 7800
       [] t = "GIF support" -> 4000
       [] t = "HEIC support" -> 4000
       [] t = "Response time performance" -> 9000
       [] t = "Helpful error messages" -> 9000
       [] OTHER -> FastTimes[t]]

Profiles ==
  { [pageOk |-> TRUE,  score |-> BestScores,         time |-> FastTimes,
     throws |-> {}, apiKey |-> "key"],
    [pageOk |-> TRUE,  score |-> TypicalScores,      time |-> SlowTimes,
     throws |-> {}, apiKey |-> "key"],
    [pageOk |-> FALSE, score |-> TypicalScores,      time |-> FastTimes,
     throws |-> {}, apiKey |-> "key"] }

\* A profile in which the remote call of some checks can end in an
\* exception that executeTest does not catch
ThrowingProfile ==
  [pageOk |-> TRUE, score |-> TypicalScores, time |-> FastTimes,
   throws |-> {"JPEG support", "Helpful error messages"}, apiKey |-> "key"]

\* ------------------------------------------------------------------------
\* Values
\* ------------------------------------------------------------------------
NoSession == 0

NoChunk == -1

\* A chunk value of a request that is no index but names a property of the
\* array TEST_CHUNKS (such as "length"): TEST_CHUNKS[chunk] is then defined
\* and is no chunk
ArrayProperty == -2

NoResult == [name |-> "", score |-> 0]

EmptyResults == [c \in Categories |-> <<>>]

NoScorecard == [overallScore |-> 0, categories |-> EmptyResults]

Update(type, category, testName, result, scorecard, progress, currentTest, nextChunk, sessionId) ==
  [type |-> type, category |-> category, testName |-> testName,
   result |-> result, scorecard |-> scorecard, progress |-> progress,
   currentTest |-> currentTest, nextChunk |-> nextChunk,
   sessionId |-> sessionId]

\* A quotient that is truncated instead of rounded
MathFloor(n, d) == n \div d

\* Math.round of the quotient n / d of two non-negative integers, d > 0:
\* the nearest integer, a half rounded up.
MathRound(n, d) == (2 * n + d) \div (2 * d)

Pow2(n) == IF n = 0 THEN 1 ELSE IF n = 1 THEN 2 ELSE IF n = 2 THEN 4 ELSE 8

Min(S) == CHOOSE x \in S : \A y \in S : x <= y

FreeId(used) == Min({k \in 1..(Cardinality(used) + 1) : k \notin used})

RECURSIVE SumScores(_)
SumScores(rs) ==
  IF rs = <<>> THEN 0 ELSE rs[1].score + SumScores(Tail(rs))

RECURSIVE Flat(_, _)
Flat(results, k) ==
  IF k > Len(CategoryOrder) THEN <<>>
  ELSE results[CategoryOrder[k]] \o Flat(results, k + 1)

\* ------------------------------------------------------------------------
\* Bounds of the model
\* ------------------------------------------------------------------------
\* Number of analyses the user starts
MaxRuns == 1

\* Number of times reader.read() rejects in a run
MaxReadErrors == 1

\* ------------------------------------------------------------------------
\* State
\* ------------------------------------------------------------------------
VARIABLES
  env,            \* the profile of the bot and the remote services
  dateNow,        \* Date.now() as used for generated session identifiers
  sessions,       \* the Map sessions: sessionId -> SessionData object
  heap,           \* the SessionData objects: object -> [results, metadata]
  invocations,    \* running POST / processChunk invocations and their streams
  calls,          \* activations of runChunkedAnalysis on the page
  timers,         \* pending setTimeout callbacks of the page
  isRunning,      \* React state isRunning
  scorecard,      \* React state scorecard
  progressState,  \* React state progressState
  alerts,         \* alert() dialogs shown to the user
  runs,           \* analyses started so far
  log             \* history of the run (requests, waits, emitted events)

vars == <<env, dateNow, sessions, heap, invocations, calls, timers,
          isRunning, scorecard, progressState, alerts, runs, log>>

serverVars == <<dateNow, sessions, heap, invocations>>

pageVars == <<isRunning, scorecard, progressState, alerts, runs>>

EmptyMap == [x \in {} |-> 0]

NoProgress ==
  [present |-> FALSE, progress |-> 0, currentTest |-> 0,
   liveResults |-> EmptyResults]

InitLog ==
  [curChunk |-> NoChunk,      \* chunk index of the last request issued
   curRequests |-> 0,         \* requests issued in a row for curChunk
   waits |-> <<>>,            \* retry delays waited in a row for curChunk
   lastSid |-> NoSession,     \* sessionId carried by the last request
   observedSid |-> NoSession, \* first sessionId observed in an event
   requested |-> {},          \* chunk indexes requested
   retried |-> FALSE,         \* some chunk index was requested twice
   usedSids |-> {},           \* sessionIds the requests were served under
   completed |-> {},          \* <<chunkIndex, testName>> of test_complete events
   completeFor |-> {},        \* sessionIds a complete event was emitted for
   skipped |-> {},            \* <<chunkIndex, testName>> left out by a budget exit
   failedChunk |-> NoChunk,   \* chunk index whose retries were exhausted
   readErrors |-> 0,          \* rejected reads of the run
   appliedTypes |-> {},       \* error, complete: types applied in the run
   pendingNext |-> NoChunk,   \* nextChunk noted when complete was applied
   replaced |-> FALSE,        \* a test_complete replaced a live result
   single |-> [present |-> FALSE, clean |-> FALSE, value |-> NoScorecard],
                              \* the scorecard the non-chunked endpoint returned
   stream |-> [pc |-> "idle", out |-> <<>>, closed |-> FALSE,
               cancelled |-> FALSE, sent |-> 0,
               metadata |-> [present |-> FALSE, description |-> {},
                             profilePictureUrl |-> FALSE,
                             isVerified |-> FALSE],
               seed |-> 0],   \* the stream of the streaming endpoint
   requests |-> 0]            \* requests sent to the endpoint directly

Init ==
  /\ env \in Profiles
  /\ dateNow = 1
  /\ sessions = EmptyMap
  /\ heap = EmptyMap
  /\ invocations = EmptyMap
  /\ calls = EmptyMap
  /\ timers = EmptyMap
  /\ isRunning = FALSE
  /\ scorecard = [present |-> FALSE, value |-> NoScorecard]
  /\ progressState = NoProgress
  /\ alerts = {}
  /\ runs = 0
  /\ log = InitLog

\* ------------------------------------------------------------------------
\* Finite maps
\* ------------------------------------------------------------------------
MapPut(f, k, v) == [x \in (DOMAIN f) \cup {k} |-> IF x = k THEN v ELSE f[x]]

MapDel(f, k) == [x \in (DOMAIN f) \ {k} |-> f[x]]

Restrict(f, S) == [x \in (DOMAIN f) \cap S |-> f[x]]

\* An invocation has a listener while an activation of runChunkedAnalysis
\* reads its stream.
HasListener(cs, v) == \E c \in DOMAIN cs : cs[c].inv = v

\* Invocations that returned and whose stream nobody reads are forgotten.
LiveInvocations(invs, cs) ==
  Restrict(invs, {v \in DOMAIN invs : invs[v].pc # "done" \/ HasListener(cs, v)})

\* SessionData objects no Map entry and no invocation refers to are garbage.
LiveHeap(h, ss, invs) ==
  Restrict(h, {ss[s] : s \in DOMAIN ss} \cup {invs[v].obj : v \in DOMAIN invs})

\* ------------------------------------------------------------------------
\* The chunk endpoint (route.ts)
\* ------------------------------------------------------------------------
\* sendProgress: one frame per update is enqueued on the stream.
sendProgress(out, update) == Append(out, update)

\* executeTest: the result of a test and whether it stores metadata in the
\* session.  hasMeta is sessionData.metadata as the test reads it.
ExecuteTest(testName, hasMeta, profile, time) ==
  CASE testName = "Fetch bot metadata" ->
         IF hasMeta
           THEN [result |-> [name |-> testName, score |-> 100], setsMeta |-> FALSE]
           ELSE IF profile.pageOk
             THEN [result |-> [name |-> testName, score |-> 100], setsMeta |-> TRUE]
             ELSE [result |-> [name |-> testName, score |-> 0], setsMeta |-> FALSE]
    [] testName = "Parse bot information" ->
         [result |-> [name |-> testName,
                      score |-> IF hasMeta
                                  THEN (IF profile.score[testName] >= 95 THEN 95 ELSE 45)
                                  ELSE 0],
          setsMeta |-> FALSE]
    [] testName \in BrandingTests ->
         [result |-> [name |-> testName,
                      score |-> IF hasMeta THEN profile.score[testName] ELSE 0],
          setsMeta |-> FALSE]
    [] testName = "Description clarity for non-technical users" ->
         [result |-> [name |-> testName,
                      score |-> IF hasMeta /\ profile.score[testName] >= 85
                                  THEN 85 ELSE 40],
          setsMeta |-> FALSE]
    [] testName = "Advanced behavior documentation" ->
         [result |-> [name |-> testName,
                      score |-> IF hasMeta /\ profile.score[testName] >= 90
                                  THEN 90 ELSE 60],
          setsMeta |-> FALSE]
    [] testName = "Limitation documentation" ->
         [result |-> [name |-> testName,
                      score |-> IF hasMeta /\ profile.score[testName] >= 85
                                  THEN 85 ELSE 70],
          setsMeta |-> FALSE]
    [] testName = "Response time performance" ->
         [result |-> [name |-> testName,
                      score |-> IF profile.score[testName] = 0 THEN 0
                                ELSE IF time < 3000 THEN 100
                                ELSE IF time < 5000 THEN 80 ELSE 50],
          setsMeta |-> FALSE]
    [] OTHER ->
         [result |-> [name |-> testName, score |-> profile.score[testName]],
          setsMeta |-> FALSE]

\* categoryResults.push(result)
PushResult(list, result) == Append(list, result)

\* An overall score that is the sum of the scores
OverallScoreSum(results) == SumScores(Flat(results, 1))

\* The overall score of the complete event: Math.round of the sum of
\* (score || 0) over Object.values(results).flat(), divided by its length.
OverallScore(results) ==
  MathRound(SumScores(Flat(results, 1)), Len(Flat(results, 1)))

\* A percentage that is truncated
ProgressTruncated(chunkIndex) == MathFloor(chunkIndex * 100, Len(TEST_CHUNKS))

\* Math.round((chunkIndex / TEST_CHUNKS.length) * 100)
Progress(chunkIndex) == MathRound(chunkIndex * 100, Len(TEST_CHUNKS))

\* assigned counts the assignments to sessionData.metadata
NewSessionData == [results |-> EmptyResults, metadata |-> FALSE, assigned |-> 0]

\* The part of one loop iteration of processChunk after executeTest has
\* returned: the result is pushed, test_complete is sent, and the
\* invocation sleeps for the inter-check delay.  v is the invocation
\* record, h the heap; the value is the new record and heap.
\* Whether executeTest awaits a remote call for the test
IsRemoteCall(testName, hasMeta) ==
  testName \in NetworkTests /\ ~(testName = "Fetch bot metadata" /\ hasMeta)

\* The durations the remote call of a test can have
CallTimes(testName, profile) == {FastTimes[testName], profile.time[testName]}

CompleteTest(v, h, profile) ==
  LET testName == ChunkTests(v.chunkIndex)[v.i + 1]
      time == v.callTime
      category == ChunkCategory(v.chunkIndex)
      ex == ExecuteTest(testName, v.metaAtStart, profile, time)
      h1 == IF ex.setsMeta
              THEN [h EXCEPT ![v.obj].metadata = TRUE, ![v.obj].assigned = @ + 1]
              ELSE h
      h2 == [h1 EXCEPT ![v.obj].results[category] = PushResult(@, ex.result)]
  IN [inv |-> [v EXCEPT
                 !.out = sendProgress(@, Update("test_complete", category,
                            testName, ex.result, NoScorecard, 0, 0, NoChunk,
                            v.sessionId)),
                 !.elapsed = @ + time + InterCheckDelay,
                 !.durations = Append(@, time),
                 !.i = @ + 1,
                 !.wait = InterCheckDelay,
                 !.pc = "loop"],
      heap |-> h2]

\* A new invocation record of POST
NewInvocation(chunkIndex, sessionId, obj) ==
  [chunkIndex |-> chunkIndex, sessionId |-> sessionId, obj |-> obj,
   i |-> 0, pc |-> "loop", elapsed |-> 0, wait |-> 0, callTime |-> 0,
   metaAtStart |-> FALSE, out |-> <<>>, closed |-> FALSE,
   startedAt |-> <<>>, durations |-> <<>>,
   cancelled |-> FALSE,   \* the stream was cancelled: enqueue and close throw
   willThrow |-> FALSE,   \* the running executeTest ends in an exception
   thrown |-> {},         \* loop indexes i + 1 whose executeTest threw
   threw |-> FALSE]       \* processChunk was left by an exception

\* An error update that carries no sessionId
ErrorUpdateAnonymous(sessionId) ==
  Update("error", "", "", NoResult, NoScorecard, 0, 0, NoChunk, NoSession)

\* The error update of the catch block of POST
ErrorUpdate(sessionId) ==
  Update("error", "", "", NoResult, NoScorecard, 0, 0, NoChunk, sessionId)

\* POST without the finally block: the stream stays open after an exception
RaiseNotClosed(r) ==
  [r EXCEPT !.out = IF r.cancelled THEN @ ELSE sendProgress(@, ErrorUpdate(r.sessionId)),
            !.threw = TRUE,
            !.wait = 0,
            !.pc = "done"]

\* An exception leaves processChunk: the catch block of POST sends the
\* error update and the finally block closes the stream.  On a cancelled
\* stream the enqueue of the error update and the close throw as well.
Raise(r) ==
  [r EXCEPT !.out = IF r.cancelled THEN @ ELSE sendProgress(@, ErrorUpdate(r.sessionId)),
            !.closed = TRUE,
            !.threw = TRUE,
            !.wait = 0,
            !.pc = "done"]

\* The result the catch block of the loop synthesizes
FailedResult(testName) == [name |-> testName, score |-> 0]

\* A test that lets every request pass
RejectedNever(call) == FALSE

\* `if (!botName || !apiKey)` of POST: the request is answered with
\* status 400
Rejected(call) == ~call.credentials

\* A test that takes every chunk value for a configured chunk
HasChunkAlways(chunkIndex) == TRUE

\* Whether TEST_CHUNKS[chunkIndex] is truthy, the negation of the test
\* `if (!chunk) return` of processChunk
HasChunk(chunkIndex) == ValidChunk(chunkIndex) \/ chunkIndex = ArrayProperty

\* POST and the start of processChunk, for the request of the activation c
\* of runChunkedAnalysis: the session identifier is the one provided or a
\* generated one; an unknown chunk index returns at once; otherwise the
\* progress update is sent and the session is looked up or created.  For a
\* chunk value that names a property of the array, the loop header reads
\* chunk.tests.length of a value without tests and throws.
POST(c) ==
  /\ c \in DOMAIN calls
  /\ calls[c].inv = 0
  /\ ~Rejected(calls[c])
  /\ LET chunkIndex == calls[c].chunkIndex
         provided == calls[c].sessionId
         sessionId == IF provided # NoSession THEN provided ELSE dateNow
         v == FreeId(DOMAIN invocations)
         known == sessionId \in DOMAIN sessions
         obj == IF known THEN sessions[sessionId] ELSE FreeId(DOMAIN heap)
         cs == [calls EXCEPT ![c].inv = v]
         entered == [NewInvocation(chunkIndex, sessionId, obj) EXCEPT
                       !.out = sendProgress(<<>>, Update("progress", "", "",
                                  NoResult, NoScorecard,
                                  IF ValidChunk(chunkIndex)
                                    THEN Progress(chunkIndex) ELSE 0,
                                  IF ValidChunk(chunkIndex)
                                    THEN chunkIndex + 1 ELSE 0,
                                  NoChunk, sessionId))]
     IN /\ UNCHANGED dateNow
        /\ calls' = cs
        /\ log' = [log EXCEPT !.usedSids = @ \cup {sessionId}]
        /\ IF ~HasChunk(chunkIndex)
             THEN /\ invocations' = MapPut(invocations, v,
                       [NewInvocation(chunkIndex, sessionId, 0) EXCEPT
                          !.pc = "done", !.closed = TRUE])
                  /\ UNCHANGED <<sessions, heap>>
             ELSE /\ invocations' = MapPut(invocations, v,
                       IF chunkIndex = ArrayProperty THEN Raise(entered)
                       ELSE entered)
                  /\ sessions' = IF known THEN sessions
                                 ELSE MapPut(sessions, sessionId, obj)
                  /\ heap' = IF known THEN heap
                             ELSE MapPut(heap, obj, NewSessionData)
  /\ UNCHANGED <<env, timers, pageVars>>

\* A budget test that already fires when the budget is just used up
OverBudgetInclusive(elapsed) == elapsed >= MAX_CHUNK_TIME

\* The budget test of a loop iteration of processChunk
OverBudget(elapsed) == elapsed > MAX_CHUNK_TIME

\* Whether the remote call of a test can end in an exception that
\* executeTest does not catch
ThrowChoices(testName, profile) ==
  IF testName \in profile.throws THEN {FALSE, TRUE} ELSE {FALSE}

\* A loop iteration without the try block: the exception of executeTest
\* leaves processChunk
CatchTestMissing(v, h) == [inv |-> Raise(v), heap |-> h]

\* A catch block that stores the failed result and reports nothing
CatchTestSilent(v, h) ==
  [inv |-> [v EXCEPT !.elapsed = @ + v.callTime,
                     !.durations = Append(@, v.callTime),
                     !.willThrow = FALSE,
                     !.i = @ + 1,
                     !.wait = 0,
                     !.pc = "loop"],
   heap |-> [h EXCEPT ![v.obj].results[ChunkCategory(v.chunkIndex)] =
               PushResult(@, FailedResult(ChunkTests(v.chunkIndex)[v.i + 1]))]]

\* The catch block of a loop iteration: executeTest threw; the failed
\* result is pushed and test_complete is sent, without the inter-check
\* delay.  v is the invocation record, h the heap.
CatchTest(v, h) ==
  LET testName == ChunkTests(v.chunkIndex)[v.i + 1]
      category == ChunkCategory(v.chunkIndex)
      failed == FailedResult(testName)
  IN [inv |-> [v EXCEPT
                 !.out = sendProgress(@, Update("test_complete", category,
                            testName, failed, NoScorecard, 0, 0, NoChunk,
                            v.sessionId)),
                 !.elapsed = @ + v.callTime,
                 !.durations = Append(@, v.callTime),
                 !.willThrow = FALSE,
                 !.i = @ + 1,
                 !.wait = 0,
                 !.pc = "loop"],
      heap |-> [h EXCEPT ![v.obj].results[category] = PushResult(@, failed)]]

\* A loop iteration on a cancelled stream after executeTest has ended: the
\* result is pushed (the failed one if executeTest threw), the enqueue of
\* test_complete throws, the catch block pushes the failed result and its
\* enqueue throws, which leaves processChunk.
CancelledTest(v, h, profile) ==
  LET testName == ChunkTests(v.chunkIndex)[v.i + 1]
      category == ChunkCategory(v.chunkIndex)
      ex == ExecuteTest(testName, v.metaAtStart, profile, v.callTime)
      h1 == IF ex.setsMeta /\ ~v.willThrow
              THEN [h EXCEPT ![v.obj].metadata = TRUE, ![v.obj].assigned = @ + 1]
              ELSE h
      h2 == IF v.willThrow THEN h1
            ELSE [h1 EXCEPT ![v.obj].results[category] = PushResult(@, ex.result)]
  IN [inv |-> Raise(v),
      heap |-> [h2 EXCEPT ![v.obj].results[category] =
                  PushResult(@, FailedResult(testName))]]

\* A loop iteration of processChunk within budget: test_start is sent and
\* executeTest is called.  A test without a remote call returns its result
\* in the same step; a test with a remote call is left waiting for it, for
\* one of the durations the call can have.  On a cancelled stream the
\* enqueue of test_start throws, outside the try block.
StartCheck(v) ==
  /\ v \in DOMAIN invocations
  /\ invocations[v].pc = "loop"
  /\ invocations[v].wait = 0
  /\ invocations[v].i < Len(ChunkTests(invocations[v].chunkIndex))
  /\ ~OverBudget(invocations[v].elapsed)
  /\ LET r == invocations[v]
         testName == ChunkTests(r.chunkIndex)[r.i + 1]
         started == [r EXCEPT
                       !.out = sendProgress(@, Update("test_start",
                                  ChunkCategory(r.chunkIndex), testName,
                                  NoResult, NoScorecard, 0, 0, NoChunk,
                                  r.sessionId)),
                       !.startedAt = Append(@, r.elapsed),
                       !.metaAtStart = heap[r.obj].metadata,
                       !.callTime = 0,
                       !.pc = "exec"]
         done == CompleteTest(started, heap, env)
         raised == LiveInvocations([invocations EXCEPT ![v] = Raise(r)], calls)
     IN IF r.cancelled
          THEN /\ invocations' = raised
               /\ heap' = LiveHeap(heap, sessions, raised)
               /\ UNCHANGED log
        ELSE IF IsRemoteCall(testName, heap[r.obj].metadata)
          THEN /\ \E d \in CallTimes(testName, env) :
                    \E t \in ThrowChoices(testName, env) :
                      invocations' = [invocations EXCEPT ![v] =
                                        [started EXCEPT !.callTime = d,
                                                        !.wait = d,
                                                        !.willThrow = t]]
               /\ UNCHANGED <<heap, log>>
          ELSE /\ invocations' = [invocations EXCEPT ![v] = done.inv]
               /\ heap' = done.heap
               /\ log' = [log EXCEPT !.completed = @ \cup {<<r.chunkIndex, testName>>}]
  /\ UNCHANGED <<env, dateNow, sessions, calls, timers, pageVars>>

\* The remote call of the running test returns or throws.
FinishCheck(v) ==
  /\ v \in DOMAIN invocations
  /\ invocations[v].pc = "exec"
  /\ invocations[v].wait = 0
  /\ LET r == invocations[v]
         testName == ChunkTests(r.chunkIndex)[r.i + 1]
         done == IF r.cancelled THEN CancelledTest(r, heap, env)
                 ELSE IF r.willThrow THEN CatchTest(r, heap)
                 ELSE CompleteTest(r, heap, env)
         ended == IF r.willThrow
                    THEN [done.inv EXCEPT !.thrown = @ \cup {r.i + 1}]
                    ELSE done.inv
         invs == LiveInvocations([invocations EXCEPT ![v] = ended], calls)
     IN /\ invocations' = invs
        /\ heap' = LiveHeap(done.heap, sessions, invs)
        /\ log' = IF r.cancelled THEN log
                  ELSE [log EXCEPT !.completed = @ \cup {<<r.chunkIndex, testName>>}]
  /\ UNCHANGED <<env, dateNow, sessions, calls, timers, pageVars>>

\* A budget exit that asks for the same chunk again
BudgetUpdateSameChunk(r) ==
  Update("chunk_complete", "", "", NoResult, NoScorecard, 0, 0, r.chunkIndex,
         r.sessionId)

\* The chunk_complete update of the budget exit of the invocation r
BudgetUpdate(r) ==
  Update("chunk_complete", "", "", NoResult, NoScorecard, 0, 0,
         r.chunkIndex + 1, r.sessionId)

\* A loop iteration of processChunk over budget: chunk_complete is sent
\* and processChunk returns; POST closes the stream.
BudgetExit(v) ==
  /\ v \in DOMAIN invocations
  /\ invocations[v].pc = "loop"
  /\ invocations[v].wait = 0
  /\ invocations[v].i < Len(ChunkTests(invocations[v].chunkIndex))
  /\ OverBudget(invocations[v].elapsed)
  /\ LET r == invocations[v]
         invs == [invocations EXCEPT ![v] =
                    IF r.cancelled THEN Raise(r)
                    ELSE [r EXCEPT
                       !.out = sendProgress(@, BudgetUpdate(r)),
                       !.closed = TRUE,
                       !.pc = "done"]]
     IN /\ invocations' = LiveInvocations(invs, calls)
        /\ heap' = LiveHeap(heap, sessions, LiveInvocations(invs, calls))
        /\ log' = IF r.cancelled THEN log
                  ELSE [log EXCEPT !.skipped = @ \cup
                          {<<r.chunkIndex, ChunkTests(r.chunkIndex)[k]>> :
                             k \in (r.i + 1)..Len(ChunkTests(r.chunkIndex))}]
  /\ UNCHANGED <<env, dateNow, sessions, calls, timers, pageVars>>

\* A test for the last chunk that holds one chunk early
IsLastChunkEarly(chunkIndex) == chunkIndex >= Len(TEST_CHUNKS) - 2

\* chunkIndex >= TEST_CHUNKS.length - 1
IsLastChunk(chunkIndex) == chunkIndex >= Len(TEST_CHUNKS) - 1

\* A delete that empties the store
DeleteEverySession(ss, sessionId) == EmptyMap

\* sessions.delete(sessionId)
DeleteSession(ss, sessionId) == MapDel(ss, sessionId)

\* The end of processChunk after the loop: the session is stored again;
\* the last chunk sends complete with the scorecard and deletes the
\* session, every other chunk sends chunk_complete.  POST closes the
\* stream.  On a cancelled stream the enqueue throws after the session has
\* been stored and before it is deleted.
EndChunk(v) ==
  /\ v \in DOMAIN invocations
  /\ invocations[v].pc = "loop"
  /\ invocations[v].wait = 0
  /\ invocations[v].i >= Len(ChunkTests(invocations[v].chunkIndex))
  /\ LET r == invocations[v]
         last == IsLastChunk(r.chunkIndex)
         stored == MapPut(sessions, r.sessionId, r.obj)
         card == [overallScore |-> OverallScore(heap[r.obj].results),
                  categories |-> heap[r.obj].results]
         final == IF last
                    THEN Update("complete", "", "", NoResult, card, 100, 0,
                                NoChunk, r.sessionId)
                    ELSE Update("chunk_complete", "", "", NoResult, NoScorecard,
                                0, 0, r.chunkIndex + 1, r.sessionId)
         invs == [invocations EXCEPT ![v] =
                    IF r.cancelled THEN Raise(r)
                    ELSE [r EXCEPT !.out = sendProgress(@, final),
                                   !.closed = TRUE,
                                   !.pc = "done"]]
         ss == IF last /\ ~r.cancelled THEN DeleteSession(stored, r.sessionId)
                                        ELSE stored
     IN /\ sessions' = ss
        /\ invocations' = LiveInvocations(invs, calls)
        /\ heap' = LiveHeap(heap, ss, LiveInvocations(invs, calls))
        /\ log' = IF last /\ ~r.cancelled
                    THEN [log EXCEPT !.completeFor = @ \cup {r.sessionId}]
                    ELSE log
  /\ UNCHANGED <<env, dateNow, calls, timers, pageVars>>

\* ------------------------------------------------------------------------
\* The page (page.tsx)
\* ------------------------------------------------------------------------
\* A backoff that grows linearly instead of doubling
BackoffDelayLinear(retryCount) == (retryCount + 1) * 1000

\* Math.pow(2, retryCount) * 1000
BackoffDelay(retryCount) == Pow2(retryCount) * 1000

\* A catch block that retries once more
MayRetryInclusive(retryCount) == retryCount <= MAX_RETRIES

\* Whether the catch block of runChunkedAnalysis retries
MayRetry(retryCount) == retryCount < MAX_RETRIES

\* runChunkedAnalysis(chunkIndex, sessionId, retryCount) up to its fetch;
\* pos counts the symbols of the stream that were read, applied lists the
\* updates of the stream that were applied, credentials tells whether the
\* botName and the apiKey of the request body are both non-empty (the page
\* starts a run only with a botName)
NewCall(chunkIndex, sessionId, retryCount) ==
  [chunkIndex |-> chunkIndex, sessionId |-> sessionId,
   retryCount |-> retryCount, currentSessionId |-> sessionId,
   nextChunk |-> NoChunk, inv |-> 0, pos |-> 0, applied |-> <<>>,
   credentials |-> env.apiKey # ""]

\* setTimeout(() => runChunkedAnalysis(chunkIndex, sessionId, retryCount + 1), delay)
RetryTimer(call) ==
  [chunkIndex |-> call.chunkIndex, sessionId |-> call.sessionId,
   retryCount |-> call.retryCount + 1,
   delay |-> BackoffDelay(call.retryCount),
   left |-> BackoffDelay(call.retryCount)]

\* A next request that inherits the retry count of the chunk before
NextTimerKeepsRetries(call) ==
  [chunkIndex |-> call.nextChunk, sessionId |-> call.currentSessionId,
   retryCount |-> call.retryCount, delay |-> NextChunkDelay,
   left |-> NextChunkDelay]

\* setTimeout(() => runChunkedAnalysis(nextChunk, currentSessionId), 1000)
NextTimer(call) ==
  [chunkIndex |-> call.nextChunk, sessionId |-> call.currentSessionId,
   retryCount |-> 0, delay |-> NextChunkDelay, left |-> NextChunkDelay]

\* The history of requests: the request for chunkIndex carrying sessionId
\* is issued after the timer delay waited (0 for the first request).
LogRequest(l, chunkIndex, sessionId, waited) ==
  [l EXCEPT
     !.curChunk = chunkIndex,
     !.curRequests = IF chunkIndex = l.curChunk THEN @ + 1 ELSE 1,
     !.waits = IF chunkIndex = l.curChunk THEN Append(@, waited) ELSE <<>>,
     !.lastSid = sessionId,
     !.requested = @ \cup {chunkIndex},
     !.retried = @ \/ chunkIndex \in l.requested]

\* A merge that always pushes
MergeResultPush(list, result) == Append(list, result)

\* The test_complete case of handleProgressUpdate: the result replaces the
\* entry of the same name, or is pushed.
MergeResult(list, result) ==
  IF \E k \in 1..Len(list) : list[k].name = result.name
    THEN LET existingIndex == Min({k \in 1..Len(list) : list[k].name = result.name})
         IN [list EXCEPT ![existingIndex] = result]
    ELSE Append(list, result)

\* x || y of JavaScript for numbers
OrElse(x, y) == IF x # 0 THEN x ELSE y

\* handleProgressUpdate(data): the new progressState, scorecard and alerts
HandleProgressUpdate(ps, sc, al, data) ==
  CASE data.type = "progress" ->
         [progressState |->
            IF ps.present
              THEN [ps EXCEPT !.progress = OrElse(data.progress, @),
                              !.currentTest = OrElse(data.currentTest, @)]
              ELSE ps,
          scorecard |-> sc, alerts |-> al]
    [] data.type = "test_complete" ->
         [progressState |->
            IF ~ps.present \/ data.result = NoResult THEN ps
            ELSE IF data.category \in Categories
              THEN [ps EXCEPT !.liveResults[data.category] =
                                 MergeResult(@, data.result)]
              ELSE ps,
          scorecard |-> sc, alerts |-> al]
    [] data.type = "complete" ->
         [progressState |-> NoProgress,
          scorecard |-> [present |-> TRUE, value |-> data.scorecard],
          alerts |-> al]
    [] data.type = "error" ->
         [progressState |-> NoProgress, scorecard |-> sc,
          alerts |-> al \cup {"error"}]
    [] OTHER ->
         [progressState |-> ps, scorecard |-> sc, alerts |-> al]

\* A read loop that schedules the next chunk as soon as chunk_complete is
\* read, while the stream is still open
OnUpdateEager(call, data) ==
  [call |-> [call EXCEPT
               !.currentSessionId =
                  IF data.sessionId # NoSession /\ @ = NoSession
                    THEN data.sessionId ELSE @,
               !.nextChunk =
                  IF data.type = "chunk_complete" /\ data.nextChunk # NoChunk
                    THEN data.nextChunk ELSE @],
   schedule |-> IF data.type = "chunk_complete" /\ data.nextChunk # NoChunk
                  THEN {[chunkIndex |-> data.nextChunk,
                         sessionId |-> IF call.currentSessionId # NoSession
                                         THEN call.currentSessionId
                                         ELSE data.sessionId,
                         retryCount |-> 0, delay |-> NextChunkDelay,
                         left |-> NextChunkDelay]}
                  ELSE {},
   return |-> data.type = "complete"]

\* A read loop that does not note the next chunk
OnUpdateForgetsNext(call, data) ==
  [call |-> [call EXCEPT
               !.currentSessionId =
                  IF data.sessionId # NoSession /\ @ = NoSession
                    THEN data.sessionId ELSE @],
   schedule |-> {},
   return |-> data.type = "complete"]

\* A read loop that goes on after a complete update
OnUpdateNoReturn(call, data) ==
  [call |-> [call EXCEPT
               !.currentSessionId =
                  IF data.sessionId # NoSession /\ @ = NoSession
                    THEN data.sessionId ELSE @,
               !.nextChunk =
                  IF data.type = "chunk_complete" /\ data.nextChunk # NoChunk
                    THEN data.nextChunk ELSE @],
   schedule |-> {},
   return |-> FALSE]

\* The body of the read loop of runChunkedAnalysis for one update, apart
\* from handleProgressUpdate: the session identifier and the next chunk are
\* noted, nothing is scheduled while the stream is read, and a complete
\* update makes the function return.
OnUpdate(call, data) ==
  [call |-> [call EXCEPT
               !.currentSessionId =
                  IF data.sessionId # NoSession /\ @ = NoSession
                    THEN data.sessionId ELSE @,
               !.nextChunk =
                  IF data.type = "chunk_complete" /\ data.nextChunk # NoChunk
                    THEN data.nextChunk ELSE @],
   schedule |-> {},
   return |-> data.type = "complete"]

\* runBotAnalysis: the button is disabled while isRunning
runBotAnalysis ==
  /\ ~isRunning
  /\ runs < MaxRuns
  /\ runs' = runs + 1
  /\ isRunning' = TRUE
  /\ scorecard' = [present |-> FALSE, value |-> NoScorecard]
  /\ progressState' = [present |-> TRUE, progress |-> 0, currentTest |-> 0,
                       liveResults |-> EmptyResults]
  /\ calls' = MapPut(calls, FreeId(DOMAIN calls), NewCall(0, NoSession, 0))
  /\ log' = LogRequest(InitLog, 0, NoSession, 0)
  /\ UNCHANGED <<env, serverVars, timers, alerts>>

\* A setTimeout callback runs: runChunkedAnalysis is called and issues its
\* request.
TimerFire(t) ==
  /\ t \in DOMAIN timers
  /\ timers[t].left = 0
  /\ timers' = MapDel(timers, t)
  /\ calls' = MapPut(calls, FreeId(DOMAIN calls),
                     NewCall(timers[t].chunkIndex, timers[t].sessionId,
                             timers[t].retryCount))
  /\ log' = LogRequest(log, timers[t].chunkIndex, timers[t].sessionId,
                       timers[t].delay)
  /\ UNCHANGED <<env, serverVars, pageVars>>

\* The connection of a stream is dropped.  Whether the stream of the
\* invocation v is cancelled then depends on the platform: if it is, the
\* stream is closed and every later enqueue and the close throw; if it is
\* not, the invocation goes on and its updates are not delivered.
Cancel(invs, v, cancel) ==
  IF cancel /\ v \in DOMAIN invs /\ invs[v].pc # "done"
    THEN [invs EXCEPT ![v].cancelled = TRUE, ![v].closed = TRUE]
    ELSE invs

\* The catch block of runChunkedAnalysis for the activation c; l is the
\* history after the failure.
Catch(c, l, cancel) ==
  LET cs == MapDel(calls, c)
      invs == LiveInvocations(Cancel(invocations, calls[c].inv, cancel), cs)
  IN /\ calls' = cs
     /\ invocations' = invs
     /\ heap' = LiveHeap(heap, sessions, invs)
     /\ IF MayRetry(calls[c].retryCount)
          THEN /\ timers' = MapPut(timers, FreeId(DOMAIN timers), RetryTimer(calls[c]))
               /\ log' = l
               /\ UNCHANGED <<isRunning, alerts>>
          ELSE /\ alerts' = alerts \cup {"retries"}
               /\ isRunning' = FALSE
               /\ log' = [l EXCEPT !.failedChunk = calls[c].chunkIndex]
               /\ UNCHANGED timers
     /\ UNCHANGED <<env, dateNow, sessions, scorecard, progressState, runs>>

\* fetch rejects or the response is not ok: the request does not reach
\* processChunk.
FetchFail(c) ==
  /\ c \in DOMAIN calls
  /\ calls[c].inv = 0
  /\ Catch(c, log, FALSE)

\* POST answers the request with status 400: response.ok is false and
\* runChunkedAnalysis throws before it reads a stream.
Reject(c) ==
  /\ c \in DOMAIN calls
  /\ calls[c].inv = 0
  /\ Rejected(calls[c])
  /\ Catch(c, log, FALSE)

\* reader.read() rejects.  The invocation on the server goes on without a
\* listener unless it has returned already.
StreamError(c) ==
  /\ c \in DOMAIN calls
  /\ calls[c].inv # 0
  /\ log.readErrors < MaxReadErrors
  /\ \E cancel \in BOOLEAN : Catch(c, [log EXCEPT !.readErrors = @ + 1], cancel)

\* The frame sendProgress enqueues for the k-th update of a stream,
\* `data: ${JSON.stringify(update)}\n\n`, as symbols: the prefix in two
\* halves, the JSON text in two halves, two line feeds
Frame(k) ==
  << [ch |-> "data", k |-> 0], [ch |-> ": ", k |-> 0],
     [ch |-> "{", k |-> k], [ch |-> "}", k |-> k],
     [ch |-> "LF", k |-> 0], [ch |-> "LF", k |-> 0] >>

FrameLen == Len(Frame(1))

\* The n symbols of the stream of the updates out after the first from
Bytes(from, n) ==
  [i \in 1..n |-> Frame(((from + i - 1) \div FrameLen) + 1)[((from + i - 1) % FrameLen) + 1]]

\* chunk.split('\n')
RECURSIVE Split(_)
Split(seg) ==
  IF \A i \in 1..Len(seg) : seg[i].ch # "LF" THEN <<seg>>
  ELSE LET p == Min({i \in 1..Len(seg) : seg[i].ch = "LF"})
       IN <<SubSeq(seg, 1, p - 1)>> \o Split(SubSeq(seg, p + 1, Len(seg)))

\* line.startsWith('data: ') and JSON.parse(line.slice(6)): the index of
\* the update the line carries; no update if the line has no prefix or if
\* the text after the prefix is not the whole JSON text (JSON.parse throws
\* and the catch block logs it)
ParseLine(line) ==
  IF Len(line) >= 2 /\ line[1].ch = "data" /\ line[2].ch = ": "
    THEN IF Len(line) = 4 /\ line[3].ch = "{" /\ line[4].ch = "}"
                          /\ line[3].k = line[4].k
           THEN <<line[3].k>>
           ELSE <<>>
    ELSE <<>>

\* The updates the loop over the lines of one read parses, in order
RECURSIVE ParseLines(_)
ParseLines(lines) ==
  IF lines = <<>> THEN <<>>
  ELSE ParseLine(Head(lines)) \o ParseLines(Tail(lines))

\* The loop over the lines of one read: each update parsed is applied, and
\* a complete update makes runChunkedAnalysis return
RECURSIVE ApplyUpdates(_, _, _)
ApplyUpdates(st, out, ks) ==
  IF ks = <<>> \/ st.return THEN st
  ELSE LET data == out[Head(ks)]
           on == OnUpdate(st.call, data)
           h == HandleProgressUpdate(st.progressState, st.scorecard, st.alerts, data)
           l1 == IF data.sessionId # NoSession /\ st.log.observedSid = NoSession
                   THEN [st.log EXCEPT !.observedSid = data.sessionId]
                   ELSE st.log
           l2 == IF data.type \in {"error", "complete"}
                   THEN [l1 EXCEPT !.appliedTypes = @ \cup {data.type}]
                   ELSE l1
           l3 == IF data.type = "complete"
                   THEN [l2 EXCEPT !.pendingNext = on.call.nextChunk]
                   ELSE l2
           l4 == IF /\ data.type = "test_complete"
                    /\ st.progressState.present
                    /\ data.category \in Categories
                    /\ \E k \in 1..Len(st.progressState.liveResults[data.category]) :
                         st.progressState.liveResults[data.category][k].name
                           = data.result.name
                   THEN [l3 EXCEPT !.replaced = TRUE]
                   ELSE l3
       IN ApplyUpdates(
            [call |-> [on.call EXCEPT !.applied = Append(@, Head(ks))],
             progressState |-> h.progressState,
             scorecard |-> h.scorecard,
             alerts |-> h.alerts,
             schedule |-> st.schedule \o
                            (IF on.schedule = {} THEN <<>>
                             ELSE <<CHOOSE t \in on.schedule : TRUE>>),
             return |-> on.return,
             log |-> l4],
            out, Tail(ks))

RECURSIVE AddTimers(_, _)
AddTimers(tm, ts) ==
  IF ts = <<>> THEN tm
  ELSE AddTimers(MapPut(tm, FreeId(DOMAIN tm), Head(ts)), Tail(ts))

\* reader.read() delivers the next n symbols of the stream; the updates of
\* the lines that parse are applied.
Read(c, n) ==
  /\ c \in DOMAIN calls
  /\ calls[c].inv # 0
  /\ n >= 1
  /\ calls[c].pos + n <= FrameLen * Len(invocations[calls[c].inv].out)
  /\ \E seg \in {Bytes(calls[c].pos, n)} :
     \E lines \in {Split(seg)} :
     \E ks \in {ParseLines(lines)} :
     \E st \in {ApplyUpdates([call |-> calls[c],
                               progressState |-> progressState,
                               scorecard |-> scorecard,
                               alerts |-> alerts,
                               schedule |-> <<>>,
                               return |-> FALSE,
                               log |-> log],
                              invocations[calls[c].inv].out,
                              ks)} :
       \E cs \in {IF st.return THEN MapDel(calls, c)
                  ELSE [calls EXCEPT ![c] = [st.call EXCEPT !.pos = @ + n]]} :
         \E invs \in {LiveInvocations(invocations, cs)} :
           /\ calls' = cs
           /\ timers' = AddTimers(timers, st.schedule)
           /\ progressState' = st.progressState
           /\ scorecard' = st.scorecard
           /\ alerts' = st.alerts
           /\ isRunning' = IF st.return THEN FALSE ELSE isRunning
           /\ invocations' = invs
           /\ heap' = LiveHeap(heap, sessions, invs)
           /\ log' = st.log
  /\ UNCHANGED <<env, dateNow, sessions, runs>>

\* reader.read() delivers the next frame of the stream as the endpoint
\* enqueued it; its update is applied.
ReadEvent(c) == Read(c, FrameLen)

\* reader.read() reports the end of the stream: the next chunk is
\* scheduled, or the run ends.
StreamDone(c) ==
  /\ c \in DOMAIN calls
  /\ calls[c].inv # 0
  /\ invocations[calls[c].inv].closed
  /\ calls[c].pos = FrameLen * Len(invocations[calls[c].inv].out)
  /\ LET cs == MapDel(calls, c)
         invs == LiveInvocations(invocations, cs)
     IN /\ calls' = cs
        /\ invocations' = invs
        /\ heap' = LiveHeap(heap, sessions, invs)
        /\ IF calls[c].nextChunk # NoChunk
             THEN /\ timers' = MapPut(timers, FreeId(DOMAIN timers), NextTimer(calls[c]))
                  /\ UNCHANGED isRunning
             ELSE /\ isRunning' = FALSE
                  /\ UNCHANGED timers
  /\ UNCHANGED <<env, dateNow, sessions, scorecard, progressState, alerts,
                 runs, log>>

\* ------------------------------------------------------------------------
\* Time
\* ------------------------------------------------------------------------
\* The times left until the pending timers fire and until the running
\* invocations take their next step
TimesLeft ==
  {timers[t].left : t \in DOMAIN timers}
    \cup {invocations[v].wait : v \in {w \in DOMAIN invocations :
                                          invocations[w].pc # "done"}}

\* Whether the identifier id is held anywhere: by the store, an invocation,
\* an activation, a timer or the history of the run
IdInUse(id) ==
  \/ id \in DOMAIN sessions
  \/ \E v \in DOMAIN invocations : invocations[v].sessionId = id
  \/ \E c \in DOMAIN calls : id \in {calls[c].sessionId, calls[c].currentSessionId}
  \/ \E t \in DOMAIN timers : timers[t].sessionId = id
  \/ id \in log.usedSids \cup log.completeFor \cup {log.lastSid, log.observedSid}

\* Time passes until the next timer fires or the next invocation goes on.
\* A timer that is due and an invocation whose wait is over act before
\* more time passes.  Date.now() then reads a later value; readings that
\* no identifier was made of are not told apart.
Tick ==
  /\ TimesLeft # {}
  /\ 0 \notin TimesLeft
  /\ LET d == Min(TimesLeft)
     IN /\ timers' = [t \in DOMAIN timers |->
                        [timers[t] EXCEPT !.left = @ - d]]
        /\ invocations' = [v \in DOMAIN invocations |->
                             IF invocations[v].pc # "done"
                               THEN [invocations[v] EXCEPT !.wait = @ - d]
                               ELSE invocations[v]]
  /\ dateNow' = IF IdInUse(dateNow) THEN dateNow + 1 ELSE dateNow
  /\ UNCHANGED <<env, sessions, heap, calls, pageVars, log>>

\* ------------------------------------------------------------------------
\* Specification
\* ------------------------------------------------------------------------
Next ==
  \/ runBotAnalysis
  \/ \E t \in DOMAIN timers : TimerFire(t)
  \/ \E c \in DOMAIN calls : POST(c)
  \/ \E c \in DOMAIN calls : FetchFail(c)
  \/ \E c \in DOMAIN calls : StreamError(c)
  \/ \E c \in DOMAIN calls : ReadEvent(c)
  \/ \E c \in DOMAIN calls : StreamDone(c)
  \/ \E v \in DOMAIN invocations : StartCheck(v)
  \/ \E v \in DOMAIN invocations : FinishCheck(v)
  \/ \E v \in DOMAIN invocations : BudgetExit(v)
  \/ \E v \in DOMAIN invocations : EndChunk(v)
  \/ Tick

Spec == Init /\ [][Next]_vars

\* ------------------------------------------------------------------------
\* The page with the endpoint in runs without transport failure: every
\* fetch is answered and no read rejects.
\* ------------------------------------------------------------------------
\* The steps of the page and of the endpoint that are ready to run
RunStep ==
  \/ \E t \in DOMAIN timers : TimerFire(t)
  \/ \E c \in DOMAIN calls : POST(c)
  \/ \E c \in DOMAIN calls : ReadEvent(c)
  \/ \E c \in DOMAIN calls : StreamDone(c)
  \/ \E v \in DOMAIN invocations : StartCheck(v)
  \/ \E v \in DOMAIN invocations : FinishCheck(v)
  \/ \E v \in DOMAIN invocations : BudgetExit(v)
  \/ \E v \in DOMAIN invocations : EndChunk(v)

NextRun == runBotAnalysis \/ RunStep \/ Tick

\* The page as loaded, with an endpoint whose checks answer fast, answer
\* slowly, or end in an exception
InitRun ==
  /\ env \in Profiles \cup {ThrowingProfile}
  /\ dateNow = 1
  /\ sessions = EmptyMap
  /\ heap = EmptyMap
  /\ invocations = EmptyMap
  /\ calls = EmptyMap
  /\ timers = EmptyMap
  /\ isRunning = FALSE
  /\ scorecard = [present |-> FALSE, value |-> NoScorecard]
  /\ progressState = NoProgress
  /\ alerts = {}
  /\ runs = 0
  /\ log = InitLog

\* The event loops run what is ready (a due timer, a read that has data, a
\* continuation of processChunk), and time passes: every remote call has
\* a timeout.
FairRunSpec == InitRun /\ [][NextRun]_vars /\ WF_vars(RunStep) /\ WF_vars(Tick)

\* ------------------------------------------------------------------------
\* The page with the endpoint under transport failures, with the scheduling
\* of the event loops: a fetch or a read may fail at any time, what is ready
\* runs, and time passes.  The remote calls of the checks answer fast.
\* ------------------------------------------------------------------------
InitFast ==
  /\ env \in {p \in Profiles : p.time = FastTimes /\ p.pageOk}
  /\ dateNow = 1
  /\ sessions = EmptyMap
  /\ heap = EmptyMap
  /\ invocations = EmptyMap
  /\ calls = EmptyMap
  /\ timers = EmptyMap
  /\ isRunning = FALSE
  /\ scorecard = [present |-> FALSE, value |-> NoScorecard]
  /\ progressState = NoProgress
  /\ alerts = {}
  /\ runs = 0
  /\ log = InitLog

\* The steps of Next; with fast remote calls no iteration of processChunk
\* starts over the budget, so the budget exit is no step here.
NextFail ==
  \/ runBotAnalysis
  \/ \E t \in DOMAIN timers : TimerFire(t)
  \/ \E c \in DOMAIN calls : POST(c)
  \/ \E c \in DOMAIN calls : FetchFail(c)
  \/ \E c \in DOMAIN calls : StreamError(c)
  \/ \E c \in DOMAIN calls : ReadEvent(c)
  \/ \E c \in DOMAIN calls : StreamDone(c)
  \/ \E v \in DOMAIN invocations : StartCheck(v)
  \/ \E v \in DOMAIN invocations : FinishCheck(v)
  \/ \E v \in DOMAIN invocations : EndChunk(v)
  \/ Tick

FairFailSpec ==
  InitFast /\ [][NextFail]_vars /\ WF_vars(RunStep) /\ WF_vars(Tick)

\* ------------------------------------------------------------------------
\* The endpoint on its own: requests are sent to POST directly, with any
\* chunk value and with no sessionId or one the endpoint has used.
\* ------------------------------------------------------------------------
\* Number of requests sent to the endpoint directly
MaxRequests == 2

\* Chunk values of direct requests: the indexes, one below the first, one
\* past the last, and a property name of the array
RequestChunks == (-1..Len(TEST_CHUNKS)) \cup {ArrayProperty}

ServerProfiles == Profiles \cup {ThrowingProfile}

InitServer ==
  /\ env \in ServerProfiles
  /\ dateNow = 1
  /\ sessions = EmptyMap
  /\ heap = EmptyMap
  /\ invocations = EmptyMap
  /\ calls = EmptyMap
  /\ timers = EmptyMap
  /\ isRunning = FALSE
  /\ scorecard = [present |-> FALSE, value |-> NoScorecard]
  /\ progressState = NoProgress
  /\ alerts = {}
  /\ runs = 0
  /\ log = InitLog

\* A client sends a request to the endpoint.
Request(chunk, sessionId) ==
  /\ log.requests < MaxRequests
  /\ calls' = MapPut(calls, FreeId(DOMAIN calls), NewCall(chunk, sessionId, 0))
  /\ log' = [log EXCEPT !.requests = @ + 1]
  /\ UNCHANGED <<env, serverVars, timers, pageVars>>

\* The client of a direct request has received the end of its stream.
StreamEnd(c) ==
  /\ c \in DOMAIN calls
  /\ calls[c].inv # 0
  /\ invocations[calls[c].inv].closed
  /\ LET cs == MapDel(calls, c)
         invs == LiveInvocations(invocations, cs)
     IN /\ calls' = cs
        /\ invocations' = invs
        /\ heap' = LiveHeap(heap, sessions, invs)
  /\ UNCHANGED <<env, dateNow, sessions, timers, pageVars, log>>

\* The client of a direct request drops its connection.
Disconnect(c) ==
  /\ c \in DOMAIN calls
  /\ calls[c].inv # 0
  /\ ~invocations[calls[c].inv].closed
  /\ \E cancel \in BOOLEAN :
       LET cs == MapDel(calls, c)
           invs == LiveInvocations(Cancel(invocations, calls[c].inv, cancel), cs)
       IN /\ calls' = cs
          /\ invocations' = invs
          /\ heap' = LiveHeap(heap, sessions, invs)
  /\ UNCHANGED <<env, dateNow, sessions, timers, pageVars, log>>

NextServer ==
  \/ \E chunk \in RequestChunks :
       \E sessionId \in {NoSession} \cup log.usedSids : Request(chunk, sessionId)
  \/ \E c \in DOMAIN calls : POST(c)
  \/ \E c \in DOMAIN calls : StreamEnd(c)
  \/ \E c \in DOMAIN calls : Disconnect(c)
  \/ \E v \in DOMAIN invocations : StartCheck(v)
  \/ \E v \in DOMAIN invocations : FinishCheck(v)
  \/ \E v \in DOMAIN invocations : BudgetExit(v)
  \/ \E v \in DOMAIN invocations : EndChunk(v)
  \/ Tick

ServerSpec == InitServer /\ [][NextServer]_vars

\* The steps of the invocations of POST
ServerStep ==
  \/ \E c \in DOMAIN calls : POST(c)
  \/ \E v \in DOMAIN invocations : StartCheck(v)
  \/ \E v \in DOMAIN invocations : FinishCheck(v)
  \/ \E v \in DOMAIN invocations : BudgetExit(v)
  \/ \E v \in DOMAIN invocations : EndChunk(v)

\* The endpoint before the last of the direct requests
InitLastRequest ==
  /\ env \in ServerProfiles
  /\ dateNow = 1
  /\ sessions = EmptyMap
  /\ heap = EmptyMap
  /\ invocations = EmptyMap
  /\ calls = EmptyMap
  /\ timers = EmptyMap
  /\ isRunning = FALSE
  /\ scorecard = [present |-> FALSE, value |-> NoScorecard]
  /\ progressState = NoProgress
  /\ alerts = {}
  /\ runs = 0
  /\ log = [InitLog EXCEPT !.requests = MaxRequests - 1]

\* The endpoint serving one request, with its scheduling: a continuation
\* that is ready is run, and time passes (every remote call has a timeout).
FairServerSpec ==
  InitLastRequest /\ [][NextServer]_vars /\ WF_vars(ServerStep) /\ WF_vars(Tick)

\* ------------------------------------------------------------------------
\* The endpoint at the end of runs: direct requests for the last two
\* chunks, with slow remote calls.
\* ------------------------------------------------------------------------
\* Number of requests for the last chunks
MaxLateRequests == 3

LateChunks == {Len(TEST_CHUNKS) - 2, Len(TEST_CHUNKS) - 1}

InitLate ==
  /\ env \in {p \in Profiles : p.time = SlowTimes}
  /\ dateNow = 1
  /\ sessions = EmptyMap
  /\ heap = EmptyMap
  /\ invocations = EmptyMap
  /\ calls = EmptyMap
  /\ timers = EmptyMap
  /\ isRunning = FALSE
  /\ scorecard = [present |-> FALSE, value |-> NoScorecard]
  /\ progressState = NoProgress
  /\ alerts = {}
  /\ runs = 0
  /\ log = InitLog

\* A client sends a request for one of the last chunks.
LateRequest(chunk, sessionId) ==
  /\ log.requests < MaxLateRequests
  /\ calls' = MapPut(calls, FreeId(DOMAIN calls), NewCall(chunk, sessionId, 0))
  /\ log' = [log EXCEPT !.requests = @ + 1]
  /\ UNCHANGED <<env, serverVars, timers, pageVars>>

NextLate ==
  \/ \E chunk \in LateChunks :
       \E sessionId \in {NoSession} \cup log.usedSids : LateRequest(chunk, sessionId)
  \/ \E c \in DOMAIN calls : POST(c)
  \/ \E c \in DOMAIN calls : StreamEnd(c)
  \/ \E v \in DOMAIN invocations : StartCheck(v)
  \/ \E v \in DOMAIN invocations : FinishCheck(v)
  \/ \E v \in DOMAIN invocations : EndChunk(v)
  \/ Tick

LateSpec == InitLate /\ [][NextLate]_vars

\* ------------------------------------------------------------------------
\* The page of a user who typed no API key, and the endpoint, which also
\* serves the requests of another client that sends its credentials.
\* ------------------------------------------------------------------------
\* Number of requests of the other client during the run of the page
MaxKeyRequests == 2

\* Chunk values of the requests of the other client
KeyChunks == {0, Len(TEST_CHUNKS) - 1}

InitNoKey ==
  /\ env \in {[p EXCEPT !.apiKey = ""] :
                p \in {q \in Profiles : q.time = FastTimes /\ q.pageOk}}
  /\ dateNow = 1
  /\ sessions = EmptyMap
  /\ heap = EmptyMap
  /\ invocations = EmptyMap
  /\ calls = EmptyMap
  /\ timers = EmptyMap
  /\ isRunning = FALSE
  /\ scorecard = [present |-> FALSE, value |-> NoScorecard]
  /\ progressState = NoProgress
  /\ alerts = {}
  /\ runs = 0
  /\ log = InitLog

\* The other client sends a request with a botName and an apiKey while
\* the page is running its analysis or after it.
KeyRequest(chunk, sessionId) ==
  /\ runs > 0
  /\ log.requests < MaxKeyRequests
  /\ calls' = MapPut(calls, FreeId(DOMAIN calls),
                     [NewCall(chunk, sessionId, 0) EXCEPT !.credentials = TRUE])
  /\ log' = [log EXCEPT !.requests = @ + 1]
  /\ UNCHANGED <<env, serverVars, timers, pageVars>>

NextKey ==
  \/ runBotAnalysis
  \/ \E t \in DOMAIN timers : TimerFire(t)
  \/ \E c \in DOMAIN calls : Reject(c)
  \/ \E chunk \in KeyChunks :
       \E sessionId \in {NoSession} \cup log.usedSids : KeyRequest(chunk, sessionId)
  \/ \E c \in DOMAIN calls : POST(c)
  \/ \E c \in DOMAIN calls : StreamEnd(c)
  \/ \E v \in DOMAIN invocations : StartCheck(v)
  \/ \E v \in DOMAIN invocations : FinishCheck(v)
  \/ \E v \in DOMAIN invocations : EndChunk(v)
  \/ Tick

KeySpec == InitNoKey /\ [][NextKey]_vars

\* ------------------------------------------------------------------------
\* The page on its own: its requests are answered with any stream of
\* updates, delivered in reads of any size.
\* ------------------------------------------------------------------------
\* Number of chunk indexes whose streams can announce a next chunk
StreamChunks == 1

\* The sessionId the updates of the streams carry
StreamSid == 1

\* The result a test_complete update of the stream for chunkIndex carries
StreamResult(chunkIndex) == [name |-> ChunkTests(chunkIndex)[1], score |-> 75]

\* The scorecard a complete update carries
StreamCard == [overallScore |-> 75, categories |-> EmptyResults]

\* The streams a request for chunkIndex can be answered with
Streams(chunkIndex) ==
  LET tc == Update("test_complete", ChunkCategory(chunkIndex),
                   ChunkTests(chunkIndex)[1], StreamResult(chunkIndex),
                   NoScorecard, 0, 0, NoChunk, StreamSid)
      cc == Update("chunk_complete", "", "", NoResult, NoScorecard, 0, 0,
                   chunkIndex + 1, StreamSid)
      co == Update("complete", "", "", NoResult, StreamCard, 100, 0, NoChunk,
                   StreamSid)
      er == ErrorUpdate(StreamSid)
  IN {<<>>, <<tc>>, <<co>>, <<er>>, <<tc, er>>, <<tc, co>>}
       \cup (IF chunkIndex < StreamChunks
               THEN {<<tc, cc>>, <<cc, co>>, <<er, cc>>}
               ELSE {})

\* The sizes of the reads
ReadSizes == 1..(2 * FrameLen)

\* The request of the activation c is answered with a stream.
Respond(c) ==
  /\ c \in DOMAIN calls
  /\ calls[c].inv = 0
  /\ \E out \in Streams(calls[c].chunkIndex) :
       LET v == FreeId(DOMAIN invocations)
           r == [NewInvocation(calls[c].chunkIndex, StreamSid, 0) EXCEPT
                   !.out = out, !.closed = TRUE, !.pc = "done"]
       IN /\ invocations' = MapPut(invocations, v, r)
          /\ calls' = [calls EXCEPT ![c].inv = v]
  /\ UNCHANGED <<env, dateNow, sessions, heap, timers, pageVars, log>>

NextClient ==
  \/ runBotAnalysis
  \/ \E t \in DOMAIN timers : TimerFire(t)
  \/ \E c \in DOMAIN calls : Respond(c)
  \/ \E c \in DOMAIN calls : FetchFail(c)
  \/ \E c \in DOMAIN calls : StreamError(c)
  \/ \E c \in DOMAIN calls : \E n \in ReadSizes : Read(c, n)
  \/ \E c \in DOMAIN calls : StreamDone(c)
  \/ Tick

ClientSpec == Init /\ [][NextClient]_vars

\* ------------------------------------------------------------------------
\* The non-chunked endpoint (analyze-bot/route.ts) next to a run of the
\* page: one request, answered with the whole scorecard.
\* ------------------------------------------------------------------------
fileTypes ==
  << [ext |-> "png", hasTestFile |-> TRUE],
     [ext |-> "jpeg", hasTestFile |-> TRUE],
     [ext |-> "pdf", hasTestFile |-> TRUE],
     [ext |-> "gif", hasTestFile |-> TRUE],
     [ext |-> "heic", hasTestFile |-> FALSE],
     [ext |-> "tiff", hasTestFile |-> FALSE],
     [ext |-> "mp4", hasTestFile |-> FALSE] >>

\* String.prototype.toUpperCase on the extensions
toUpperCase(ext) ==
  CASE ext = "png" -> "PNG"
    [] ext = "jpeg" -> "JPEG"
    [] ext = "pdf" -> "PDF"
    [] ext = "gif" -> "GIF"
    [] ext = "heic" -> "HEIC"
    [] ext = "tiff" -> "TIFF"
    [] ext = "mp4" -> "MP4"

\* `${fileType.ext.toUpperCase()} support`
SupportName(ext) == toUpperCase(ext) \o " support"

\* The remote services a request of the non-chunked endpoint calls
RemoteCalls == {"files", "conversation", "errors"}

\* fetchBotMetadata: the metadata, or null when the profile page is not
\* answered with success
fetchBotMetadata(profile) == profile.pageOk

\* analyzeBranding: one failed result without metadata, else the four
\* branding checks
analyzeBranding(metadata, profile) ==
  IF ~metadata
    THEN <<[name |-> "Bot name consistency and formatting", score |-> 0]>>
    ELSE [k \in 1..4 |->
            [name |-> TEST_CHUNKS[2].tests[k],
             score |-> profile.score[TEST_CHUNKS[2].tests[k]]]]

\* analyzeDescription: three results, computed from the description or
\* from the empty string
analyzeDescription(metadata, profile) ==
  << [name |-> "Description clarity for non-technical users",
      score |-> IF metadata /\ profile.score["Description clarity for non-technical users"] >= 85
                  THEN 85 ELSE 40],
     [name |-> "Advanced behavior documentation",
      score |-> IF metadata /\ profile.score["Advanced behavior documentation"] >= 90
                  THEN 90 ELSE 60],
     [name |-> "Limitation documentation",
      score |-> IF metadata /\ profile.score["Limitation documentation"] >= 85
                  THEN 85 ELSE 70] >>

\* testFileSupport: one result per file type, a failed one when the test
\* of the type ends in an exception
testFileSupport(profile, failing) ==
  [k \in 1..Len(fileTypes) |->
     [name |-> SupportName(fileTypes[k].ext),
      score |-> IF "files" \in failing THEN 0
                ELSE profile.score[SupportName(fileTypes[k].ext)]]]

\* testConversationFlow: two results, or one failed result when a prompt
\* ends in an exception
testConversationFlow(profile, failing) ==
  IF "conversation" \in failing
    THEN <<[name |-> "Multi-turn conversation coherence", score |-> 0]>>
    ELSE << [name |-> "Multi-turn conversation coherence",
             score |-> IF profile.score["Multi-turn conversation coherence"] >= 85
                         THEN 85 ELSE 40],
            [name |-> "Response time performance",
             score |-> IF profile.time["Response time performance"] < 3000 THEN 100
                       ELSE IF profile.time["Response time performance"] < 5000
                         THEN 80 ELSE 50] >>

\* testErrorHandling: one result
testErrorHandling(profile, failing) ==
  << [name |-> "Helpful error messages",
      score |-> IF "errors" \in failing THEN 0
                ELSE IF profile.score["Helpful error messages"] >= 90 THEN 90
                ELSE 50] >>

\* The scorecard POST of the non-chunked endpoint builds
AnalyzeBot(profile, failing) ==
  LET metadata == fetchBotMetadata(profile)
      brandingResults == analyzeBranding(metadata, profile)
      usabilityResults == analyzeDescription(metadata, profile)
      fileSupportResults == testFileSupport(profile, failing)
      conversationResults == testConversationFlow(profile, failing)
      errorHandlingResults == testErrorHandling(profile, failing)
      allResults == brandingResults \o usabilityResults \o fileSupportResults
                      \o conversationResults \o errorHandlingResults
  IN [overallScore |-> MathRound(SumScores(allResults), Len(allResults)),
      categories |-> [cat \in Categories |->
         CASE cat = "branding" -> brandingResults
           [] cat = "functionality" -> conversationResults
           [] cat = "usability" -> usabilityResults
           [] cat = "fileSupport" -> fileSupportResults
           [] cat = "errorHandling" -> errorHandlingResults]]

\* POST of the non-chunked endpoint serves its request; the remote calls
\* in failing end in an exception.
AnalyzeBotPOST ==
  /\ ~log.single.present
  /\ env.apiKey # ""
  /\ \E failing \in SUBSET RemoteCalls :
       log' = [log EXCEPT !.single =
                 [present |-> TRUE, clean |-> failing = {},
                  value |-> AnalyzeBot(env, failing)]]
  /\ UNCHANGED <<env, serverVars, calls, timers, pageVars>>

NextBoth == AnalyzeBotPOST \/ NextRun

BothSpec == Init /\ [][NextBoth]_vars

\* ------------------------------------------------------------------------
\* The streaming endpoint (analyze-bot-stream)
\* ------------------------------------------------------------------------
\* totalTests of analyzeBot
totalTests == 20

\* A field an update does not carry
Absent == -1

\* fetchBotMetadata returned null
NoMetadata ==
  [present |-> FALSE, description |-> {}, profilePictureUrl |-> FALSE,
   isVerified |-> FALSE]

\* What parseBotPage can find on a profile page: description holds the
\* features of the text the checks look at ("long": more than 50 characters)
ParsedPages ==
  { [present |-> TRUE, description |-> {}, profilePictureUrl |-> FALSE,
     isVerified |-> FALSE],
    [present |-> TRUE, description |-> {"long", "--", "limitation"},
     profilePictureUrl |-> TRUE, isVerified |-> TRUE],
    [present |-> TRUE, description |-> {"long", "param", "cannot"},
     profilePictureUrl |-> TRUE, isVerified |-> FALSE] }

\* The generators Math.random can be: the k-th draw, in hundredths
Seeds == 0..3

Random(seed, k) ==
  CASE seed = 0 -> 90
    [] seed = 1 -> 10
    [] seed = 2 -> 25
    [] OTHER -> IF k % 2 = 1 THEN 90 ELSE 10

\* An update without its optional fields
StreamUpdate(type) ==
  [type |-> type, category |-> "", testName |-> "", message |-> FALSE,
   progress |-> Absent, currentTest |-> Absent, results |-> <<>>,
   overallScore |-> Absent]

\* updateProgress once currentTest has been incremented
ProgressUpdate(currentTest) ==
  [StreamUpdate("progress") EXCEPT
     !.message = TRUE,
     !.progress = MathRound(currentTest * 100, totalTests),
     !.currentTest = currentTest]

CategoryStart(category) ==
  [StreamUpdate("category_start") EXCEPT !.category = category, !.message = TRUE]

CategoryComplete(category, results) ==
  [StreamUpdate("category_complete") EXCEPT !.category = category,
                                      !.results = results]

\* The updates of a loop over results: test_start, test_complete per result
RECURSIVE TestUpdates(_, _)
TestUpdates(category, results) ==
  LET TestStart(testName) ==
        [StreamUpdate("test_start") EXCEPT
           !.category = category, !.testName = testName, !.message = TRUE]
      TestComplete(result) ==
        [StreamUpdate("test_complete") EXCEPT
           !.category = category, !.testName = result.name,
           !.results = <<result>>]
  IN IF results = <<>> THEN <<>>
     ELSE <<TestStart(Head(results).name), TestComplete(Head(results))>>
            \o TestUpdates(category, Tail(results))

\* The results of analyzeBrandingWithProgress, with the analysis functions
\* it calls
BrandingResults(metadata) ==
  LET analyzeBotName(m) ==
        IF ~m.present THEN [status |-> "failed", score |-> 0]
        ELSE [status |-> "passed", score |-> 85]
      analyzeProfilePicture(m) ==
        IF ~m.profilePictureUrl THEN [status |-> "failed", score |-> 0]
        ELSE [status |-> "passed", score |-> 90]
      analyzeBrandConsistency == [status |-> "passed", score |-> 80]
      analyzeVerification(m) ==
        IF m.isVerified THEN [status |-> "passed", score |-> 90]
        ELSE [status |-> "failed", score |-> 50]
      r(testName, res) ==
        [name |-> testName, status |-> res.status, score |-> res.score]
  IN << r("Bot name consistency and formatting", analyzeBotName(metadata)),
        r("Profile picture appeal and quality", analyzeProfilePicture(metadata)),
        r("Brand consistency with model family", analyzeBrandConsistency),
        r("Official verification and credibility", analyzeVerification(metadata)) >>

\* The results of analyzeDescriptionWithProgress
DescriptionResults(metadata) ==
  LET description == metadata.description
  IN << [name |-> "Description clarity for non-technical users",
         status |-> IF "long" \in description THEN "passed" ELSE "failed",
         score |-> IF "long" \in description THEN 85 ELSE 40],
        [name |-> "Advanced behavior documentation",
         status |-> IF "--" \in description \/ "param" \in description
                      THEN "passed" ELSE "failed",
         score |-> IF "--" \in description THEN 90 ELSE 60],
        [name |-> "Limitation documentation",
         status |-> IF "limitation" \in description \/ "cannot" \in description
                      THEN "passed" ELSE "failed",
         score |-> IF "limitation" \in description THEN 85 ELSE 70] >>

\* The results of testFileSupportWithProgress: two draws per file type
FileSupportResults(seed) ==
  [k \in 1..Len(fileTypes) |->
     [name |-> SupportName(fileTypes[k].ext),
      status |-> IF Random(seed, 2 * k - 1) > 30 THEN "passed" ELSE "failed",
      score |-> IF Random(seed, 2 * k) > 30 THEN 85 ELSE 45]]

\* The results of testConversationFlowWithProgress: two draws per check
ConversationResults(seed) ==
  LET tests == << "Multi-turn conversation coherence",
                  "Response time performance" >>
      first == 2 * Len(fileTypes)
  IN [k \in 1..2 |->
        [name |-> tests[k],
         status |-> IF Random(seed, first + 2 * k - 1) > 20
                      THEN "passed" ELSE "failed",
         score |-> IF Random(seed, first + 2 * k) > 20 THEN 88 ELSE 35]]

\* The result of testErrorHandlingWithProgress: two draws
ErrorHandlingResults(seed) ==
  LET first == 2 * Len(fileTypes) + 4
  IN << [name |-> "Helpful error messages",
         status |-> IF Random(seed, first + 1) > 30 THEN "passed" ELSE "failed",
         score |-> IF Random(seed, first + 2) > 30 THEN 82 ELSE 45] >>

\* The updates analyzeBot hands to onProgress, in the order of its statements
analyzeBotUpdates(metadata, seed) ==
  <<ProgressUpdate(0), CategoryStart("metadata"), ProgressUpdate(1)>>
  \o <<CategoryStart("branding")>>
  \o TestUpdates("branding", BrandingResults(metadata))
  \o <<ProgressUpdate(2),
       CategoryComplete("branding", BrandingResults(metadata))>>
  \o <<CategoryStart("usability")>>
  \o TestUpdates("usability", DescriptionResults(metadata))
  \o <<ProgressUpdate(3),
       CategoryComplete("usability", DescriptionResults(metadata))>>
  \o <<CategoryStart("fileSupport")>>
  \o TestUpdates("fileSupport", FileSupportResults(seed))
  \o <<ProgressUpdate(4),
       CategoryComplete("fileSupport", FileSupportResults(seed))>>
  \o <<CategoryStart("functionality")>>
  \o TestUpdates("functionality", ConversationResults(seed))
  \o <<ProgressUpdate(5),
       CategoryComplete("functionality", ConversationResults(seed))>>
  \o <<CategoryStart("errorHandling")>>
  \o TestUpdates("errorHandling", ErrorHandlingResults(seed))
  \o <<ProgressUpdate(6),
       CategoryComplete("errorHandling", ErrorHandlingResults(seed))>>

\* The scorecard analyzeBot returns
analyzeBot(metadata, seed) ==
  LET allResults == BrandingResults(metadata) \o DescriptionResults(metadata)
                      \o FileSupportResults(seed) \o ConversationResults(seed)
                      \o ErrorHandlingResults(seed)
  IN [overallScore |-> MathRound(SumScores(allResults), Len(allResults)),
      results |-> allResults]

\* The stream of the endpoint before a request
NoStream ==
  [pc |-> "idle", out |-> <<>>, closed |-> FALSE, cancelled |-> FALSE,
   sent |-> 0, metadata |-> NoMetadata, seed |-> 0]

\* An exception in start's try block: the catch block sends the error
\* update and the finally block closes the stream.  On a cancelled stream
\* the enqueue of the catch block and the close throw as well.
StreamCatch(s) ==
  [s EXCEPT !.out = IF s.cancelled THEN @
                     ELSE Append(@, [StreamUpdate("error") EXCEPT
                                       !.message = TRUE]),
            !.closed = TRUE,
            !.pc = "done"]

\* POST of the streaming endpoint with botName and apiKey: start sends its
\* first update and goes on to import analyzeBot.  The page the bot has and
\* the random generator are fixed here.
StreamPOST ==
  /\ log.stream.pc = "idle"
  /\ env.apiKey # ""
  /\ \E page \in ParsedPages, seed \in Seeds :
       log' = [log EXCEPT !.stream =
                 [NoStream EXCEPT
                    !.pc = "import",
                    !.out = <<[StreamUpdate("progress") EXCEPT
                                 !.message = TRUE, !.progress = 0,
                                 !.currentTest = 0]>>,
                    !.metadata = IF env.pageOk THEN page ELSE NoMetadata,
                    !.seed = seed]]
  /\ UNCHANGED <<env, serverVars, calls, timers, pageVars>>

\* await import('./bot-analyzer'): the module is loaded, or the import is
\* rejected
StreamImport ==
  /\ log.stream.pc = "import"
  /\ \E loaded \in BOOLEAN :
       log' = [log EXCEPT !.stream =
                 IF loaded /\ ~log.stream.cancelled
                   THEN [@ EXCEPT !.pc = "analyze"]
                   ELSE StreamCatch(@)]
  /\ UNCHANGED <<env, serverVars, calls, timers, pageVars>>

\* analyzeBot runs up to its next onProgress, which enqueues the update; on
\* a cancelled stream the enqueue throws
StreamSend ==
  /\ log.stream.pc = "analyze"
  /\ LET s == log.stream
         updates == analyzeBotUpdates(s.metadata, s.seed)
     IN /\ s.sent < Len(updates)
        /\ log' = [log EXCEPT !.stream =
                     IF s.cancelled THEN StreamCatch(s)
                     ELSE [s EXCEPT !.out = Append(@, updates[s.sent + 1]),
                                    !.sent = @ + 1]]
  /\ UNCHANGED <<env, serverVars, calls, timers, pageVars>>

\* analyzeBot returns its scorecard: start sends complete and closes the
\* stream
StreamComplete ==
  /\ log.stream.pc = "analyze"
  /\ LET s == log.stream
         result == analyzeBot(s.metadata, s.seed)
     IN /\ s.sent = Len(analyzeBotUpdates(s.metadata, s.seed))
        /\ log' = [log EXCEPT !.stream =
                     IF s.cancelled THEN StreamCatch(s)
                     ELSE [s EXCEPT
                             !.out = Append(@,
                                [StreamUpdate("complete") EXCEPT
                                   !.message = TRUE, !.progress = 100,
                                   !.results = result.results,
                                   !.overallScore = result.overallScore]),
                             !.closed = TRUE,
                             !.pc = "done"]]
  /\ UNCHANGED <<env, serverVars, calls, timers, pageVars>>

\* The consumer of the stream cancels it: the stream is closed and every
\* later enqueue throws
StreamCancel ==
  /\ log.stream.pc \in {"import", "analyze"}
  /\ ~log.stream.cancelled
  /\ log' = [log EXCEPT !.stream.cancelled = TRUE, !.stream.closed = TRUE]
  /\ UNCHANGED <<env, serverVars, calls, timers, pageVars>>

NextStream ==
  \/ StreamPOST
  \/ StreamImport
  \/ StreamSend
  \/ StreamComplete
  \/ StreamCancel

StreamSpec == Init /\ [][NextStream]_vars

\* ------------------------------------------------------------------------
\* Properties
\* ------------------------------------------------------------------------
\* Nothing of the run is in progress: no activation, no timer, no invocation
Quiescent ==
  calls = EmptyMap /\ timers = EmptyMap /\ invocations = EmptyMap

\* The updates of a type on the streams that are still held
Emitted(type) ==
  {u \in UNION {SeqRange(invocations[v].out) : v \in DOMAIN invocations} :
     u.type = type}

CompletedNames == {p[2] : p \in log.completed}

\* The run requested every chunk index once, 0 to 6, under one session
\* identifier, and has ended.
RunOfSevenChunks ==
  /\ Quiescent
  /\ ~isRunning
  /\ log.requested = 0..(Len(TEST_CHUNKS) - 1)
  /\ ~log.retried
  /\ Cardinality(log.usedSids) = 1

\* C1: after a run that requests every chunk index 0..6 once, in order and
\* under one sessionId, the names of the test_complete events are exactly
\* the names configured in TEST_CHUNKS, none completed in two chunks.
C1_EveryCheckCompletedOnce ==
  RunOfSevenChunks =>
    /\ CompletedNames = AllTests
    /\ \A p, q \in log.completed : p[2] = q[2] => p[1] = q[1]

NoDuplicateNames(list) ==
  \A j, k \in 1..Len(list) : list[j].name = list[k].name => j = k

\* C2: processing a chunk again under the same sessionId adds no second
\* entry for a name the session's category list already holds: no category
\* list of a stored session holds a name twice.
C2_RetriedChunkAddsNoDuplicate ==
  \A sid \in DOMAIN sessions : \A cat \in Categories :
    NoDuplicateNames(heap[sessions[sid]].results[cat])

\* C3: the retries of a chunk are exhausted after exactly 4 requests for
\* it in a row, with waits of 1 s, 2 s and 4 s between them; the failure is
\* reported, isRunning becomes false, and no request is issued afterwards
\* in that run.
C3_RetryBoundary ==
  [][ /\ (log.failedChunk = NoChunk /\ log'.failedChunk # NoChunk) =>
           /\ log'.curRequests = 4
           /\ log'.waits = <<1000, 2000, 4000>>
           /\ log'.curChunk = log'.failedChunk
           /\ "retries" \in alerts'
           /\ ~isRunning'
           /\ calls' = EmptyMap /\ timers' = EmptyMap
      /\ (log.failedChunk # NoChunk /\ runs' = runs) =>
           /\ calls' = EmptyMap /\ timers' = EmptyMap
           /\ ~isRunning'
           /\ log'.failedChunk = log.failedChunk
    ]_vars

C3_Witness ==
  /\ log.failedChunk >= 1
  /\ log.curRequests = 4
  /\ ~isRunning

RECURSIVE SumSeq(_)
SumSeq(q) == IF q = <<>> THEN 0 ELSE q[1] + SumSeq(Tail(q))

Returned(v) ==
  /\ invocations[v].pc = "done"
  /\ ValidChunk(invocations[v].chunkIndex)
  /\ ~invocations[v].threw

LastUpdate(v) == invocations[v].out[Len(invocations[v].out)]

\* C4 as stated: an invocation whose checks together take longer than the
\* budget ends with chunk_complete for chunkIndex + 1 before all its checks
\* completed, and has sent no test_start for a check whose execution
\* takes the elapsed time over the budget.
C4_StopsBeforeTheCheckOverBudget ==
  \A v \in DOMAIN invocations :
    Returned(v) =>
      LET r == invocations[v]
      IN /\ SumSeq(r.durations) > MAX_CHUNK_TIME =>
              /\ LastUpdate(v).type = "chunk_complete"
              /\ LastUpdate(v).nextChunk = r.chunkIndex + 1
              /\ Len(r.durations) < Len(ChunkTests(r.chunkIndex))
         /\ \A k \in 1..Len(r.durations) :
              ~(r.startedAt[k] <= MAX_CHUNK_TIME
                  /\ r.startedAt[k] + r.durations[k] > MAX_CHUNK_TIME)

\* C4 amended: no check is started when the elapsed time at the start of
\* its iteration exceeds the budget, and every started check completes,
\* also when it takes the elapsed time over the budget; an invocation
\* returns before all its checks completed only when the elapsed time
\* exceeded the budget, and then chunk_complete for chunkIndex + 1 is its
\* last update.
C4_BudgetBoundary ==
  \A v \in DOMAIN invocations :
    Returned(v) =>
      LET r == invocations[v]
          n == Len(ChunkTests(r.chunkIndex))
      IN /\ \A k \in 1..Len(r.startedAt) : r.startedAt[k] <= MAX_CHUNK_TIME
         /\ Len(r.durations) = Len(r.startedAt)
         /\ Len(r.durations) < n =>
              /\ r.elapsed > MAX_CHUNK_TIME
              /\ LastUpdate(v).type = "chunk_complete"
              /\ LastUpdate(v).nextChunk = r.chunkIndex + 1
         /\ (Len(r.durations) = n /\ r.chunkIndex < Len(TEST_CHUNKS) - 1) =>
              /\ LastUpdate(v).type = "chunk_complete"
              /\ LastUpdate(v).nextChunk = r.chunkIndex + 1

\* An invocation returned over budget before its last check, after a check
\* that took the elapsed time over the budget
C4_Witness ==
  \E v \in DOMAIN invocations :
    /\ Returned(v)
    /\ Len(invocations[v].durations) < Len(ChunkTests(invocations[v].chunkIndex))
    /\ \E k \in 1..Len(invocations[v].durations) :
         invocations[v].startedAt[k] + invocations[v].durations[k] > MAX_CHUNK_TIME
    /\ LastUpdate(v).type = "chunk_complete"

\* Number of results and sum of their scores over the five category lists
CountResults(categories) ==
  Len(categories["branding"]) + Len(categories["functionality"])
    + Len(categories["usability"]) + Len(categories["fileSupport"])
    + Len(categories["errorHandling"])

ScoreOfList(list) ==
  LET Acc[k \in 0..Len(list)] == IF k = 0 THEN 0 ELSE Acc[k - 1] + list[k].score
  IN Acc[Len(list)]

TotalScore(categories) ==
  ScoreOfList(categories["branding"]) + ScoreOfList(categories["functionality"])
    + ScoreOfList(categories["usability"]) + ScoreOfList(categories["fileSupport"])
    + ScoreOfList(categories["errorHandling"])

\* C5: the overallScore of a complete event is the mean S / k of the scores
\* of the k results of its five category lists, rounded to the nearest
\* integer with a half rounded up: S/k - 1/2 < overallScore <= S/k + 1/2.
C5_OverallScoreIsRoundedMean ==
  \A u \in Emitted("complete") :
    LET k == CountResults(u.scorecard.categories)
        S == TotalScore(u.scorecard.categories)
        o == u.scorecard.overallScore
    IN /\ k > 0
       /\ 2 * S - k < 2 * k * o
       /\ 2 * k * o <= 2 * S + k

\* A complete event whose mean is not an integer and is rounded up
C5_Witness ==
  \E u \in Emitted("complete") :
    LET k == CountResults(u.scorecard.categories)
        S == TotalScore(u.scorecard.categories)
    IN k > 0 /\ 2 * (S % k) > k /\ u.scorecard.overallScore * k > S

\* The weights of the categories in percent (README, Test Categories)
Weight(category) ==
  CASE category = "branding" -> 25
    [] category = "functionality" -> 25
    [] category = "usability" -> 25
    [] category = "fileSupport" -> 15
    [] category = "errorHandling" -> 10

\* C6: the overallScore of a complete event is the weighted aggregate of
\* the category means, sum of weight x mean over the categories (25, 25,
\* 25, 15 and 10 percent), rounded to an integer.  With every category
\* non-empty and D the product of the list lengths, the aggregate is
\* N / (100 D) for N the sum of weight x score sum x D / length.
C6_OverallScoreIsWeighted ==
  \A u \in Emitted("complete") :
    LET cats == u.scorecard.categories
        D == Len(cats["branding"]) * Len(cats["functionality"])
               * Len(cats["usability"]) * Len(cats["fileSupport"])
               * Len(cats["errorHandling"])
        Part(c) == Weight(c) * ScoreOfList(cats[c]) * (D \div Len(cats[c]))
        N == Part("branding") + Part("functionality") + Part("usability")
               + Part("fileSupport") + Part("errorHandling")
    IN D > 0 => u.scorecard.overallScore = (2 * N + 100 * D) \div (200 * D)

\* C7: a session is in the store while its run goes on to the next chunk,
\* and once the complete event of a sessionId has been emitted and the
\* work on the run has ended, the store has no entry for it.
C7_SessionLifetime ==
  /\ \A t \in DOMAIN timers :
       (timers[t].retryCount = 0 /\ timers[t].sessionId # NoSession) =>
          timers[t].sessionId \in DOMAIN sessions
  /\ Quiescent => \A sid \in log.completeFor : sid \notin DOMAIN sessions

\* C8: once an event carrying a sessionId has been observed in a run,
\* every request issued afterwards in that run carries that sessionId.
C8_SessionIdContinuity ==
  [][ \A c \in (DOMAIN calls') \ (DOMAIN calls) :
        (runs' = runs /\ log.observedSid # NoSession) =>
           calls'[c].sessionId = log.observedSid
    ]_vars

\* C9: the page has at most one chunk request in flight, and the request
\* for the next chunk or for a retry is scheduled only when no stream is
\* being read: activations of runChunkedAnalysis and pending timers
\* together are at most one.
C9_OneRequestAtATime ==
  Cardinality(DOMAIN calls) + Cardinality(DOMAIN timers) <= 1

\* The stream of a retried request is being read
C9_Witness ==
  \E c \in DOMAIN calls :
    /\ calls[c].retryCount > 0
    /\ calls[c].chunkIndex >= 1
    /\ calls[c].inv # 0
    /\ calls[c].pos >= 2 * FrameLen

\* C10: at most one running chunk invocation works on the SessionState of
\* a sessionId at any moment.
C10_OneInvocationPerSession ==
  \A v, w \in DOMAIN invocations :
    (v # w /\ invocations[v].pc # "done" /\ invocations[w].pc # "done") =>
       invocations[v].sessionId # invocations[w].sessionId

\* ------------------------------------------------------------------------
\* Checks that throw, the end of the stream, the session's metadata
\* ------------------------------------------------------------------------
\* The updates of a type on the stream of the invocation v
UpdatesOf(v, type) ==
  {p \in 1..Len(invocations[v].out) : invocations[v].out[p].type = type}

C12_StreamClosedAfterLastEvent ==
  /\ \A v \in 1..MaxRequests :
       (v \in DOMAIN invocations /\ ~invocations[v].closed)
         ~> (v \notin DOMAIN invocations \/ invocations[v].closed)
  /\ [](\A v \in DOMAIN invocations :
          invocations[v].pc = "done" => invocations[v].closed)
  /\ [][\A v \in (DOMAIN invocations) \cap (DOMAIN invocations') :
          invocations[v].closed =>
            /\ invocations'[v].closed
            /\ invocations'[v].out = invocations[v].out]_vars

\* A stream that was closed behind an error update
C12_Witness ==
  \E v \in DOMAIN invocations :
    /\ invocations[v].closed
    /\ ~invocations[v].cancelled
    /\ invocations[v].out # <<>>
    /\ LastUpdate(v).type = "error"


\* C13: once the page has applied a complete update, the scorecard of the
\* update is shown, isRunning is false and the run issues no further
\* request: no activation of runChunkedAnalysis and no timer is left, also
\* when a chunk_complete update with a next chunk was read earlier in the
\* same stream.
C13_CompleteEndsTheRun ==
  "complete" \in log.appliedTypes =>
    /\ scorecard.present
    /\ scorecard.value = StreamCard
    /\ ~isRunning
    /\ calls = EmptyMap
    /\ timers = EmptyMap

\* A complete update was applied after a chunk_complete update of the same
\* stream had announced a next chunk
C13_Witness ==
  /\ "complete" \in log.appliedTypes
  /\ log.pendingNext # NoChunk
  /\ scorecard.present
  /\ ~isRunning


\* C14: after the page has applied an error update the run issues no
\* request any more: no retry and no next chunk is scheduled (no timer is
\* pending) and no new request is on its way.
C14_NoRequestAfterError ==
  "error" \in log.appliedTypes =>
    /\ timers = EmptyMap
    /\ \A c \in DOMAIN calls : calls[c].inv # 0


\* C15: when a failure is surfaced to the user (an alert is raised, for an
\* error update or for exhausted retries) while results are shown, the
\* live results stay shown: progressState is still there and holds every
\* result it held before.
C15_PartialResultsStayVisible ==
  [][(/\ alerts' # alerts
      /\ progressState.present
      /\ \E cat \in Categories : progressState.liveResults[cat] # <<>>)
       => /\ progressState'.present
          /\ \A cat \in Categories :
               \A k \in 1..Len(progressState.liveResults[cat]) :
                 \E j \in 1..Len(progressState'.liveResults[cat]) :
                   progressState'.liveResults[cat][j] =
                     progressState.liveResults[cat][k]]_vars


\* C16: in a run for which a complete update was emitted, every check a
\* budget exit left out has a test_complete update on some stream of the
\* run.
C16_SkippedCheckRunsLater ==
  (log.completeFor # {} /\ Quiescent) =>
    \A p \in log.skipped : \E q \in log.completed : q[2] = p[2]


\* C17: the metadata of a session is assigned at most once: no SessionData
\* object has had sessionData.metadata assigned twice.
C17_MetadataAssignedOnce ==
  \A o \in DOMAIN heap : heap[o].assigned <= 1


\* C18: when the page has read everything that was enqueued on a stream,
\* it has applied every update of the stream once, in the order of
\* emission.
C18_EveryEventAppliedOnceInOrder ==
  \A c \in DOMAIN calls :
    (/\ calls[c].inv # 0
     /\ calls[c].pos = FrameLen * Len(invocations[calls[c].inv].out))
      => calls[c].applied = [k \in 1..Len(invocations[calls[c].inv].out) |-> k]


C20_OverallScoreInRange ==
  /\ \A v \in DOMAIN invocations :
       (/\ invocations[v].pc = "loop"
        /\ ValidChunk(invocations[v].chunkIndex)
        /\ invocations[v].chunkIndex >= Len(TEST_CHUNKS) - 1
        /\ invocations[v].i >= Len(ChunkTests(invocations[v].chunkIndex)))
         => Len(Flat(heap[invocations[v].obj].results, 1)) >= 1
  /\ \A u \in Emitted("complete") :
       LET all == Flat(u.scorecard.categories, 1)
       IN (\A k \in 1..Len(all) : all[k].score \in 0..100)
            => /\ Len(all) >= 1
               /\ u.scorecard.overallScore \in 0..100

\* The complete update of a session that holds one result only, and one of
\* a session whose scores sum up to more than 100
C20_Witness ==
  /\ \E u \in Emitted("complete") : Len(Flat(u.scorecard.categories, 1)) = 1
  /\ \E u \in Emitted("complete") :
       /\ SumScores(Flat(u.scorecard.categories, 1)) > 100
       /\ u.scorecard.overallScore > 0


\* The names of the results of a list, in order
NamesOf(list) == [k \in 1..Len(list) |-> list[k].name]

\* C21: when the page has applied every update of a stream that ended with
\* chunk_complete, its liveResults hold for every category the same names
\* in the same order as the results of the session of the invocation.
C21_ClientMirrorsServer ==
  \A c \in DOMAIN calls :
    (/\ calls[c].inv # 0
     /\ invocations[calls[c].inv].closed
     /\ ~invocations[calls[c].inv].cancelled
     /\ Len(invocations[calls[c].inv].out) > 0
     /\ calls[c].pos = FrameLen * Len(invocations[calls[c].inv].out)
     /\ invocations[calls[c].inv].out[Len(invocations[calls[c].inv].out)].type
          = "chunk_complete"
     /\ progressState.present)
      => \A cat \in Categories :
           NamesOf(progressState.liveResults[cat])
             = NamesOf(heap[invocations[calls[c].inv].obj].results[cat])


\* C22: when the page sees the end of a stream on which it read
\* chunk_complete with nextChunk = n, it schedules one request, for chunk
\* n, with the sessionId of the stream and retryCount 0, and nothing
\* else; and the request a timer issues is the one the timer was set for.
C22_NextChunkRequest ==
  [][/\ \A c \in DOMAIN calls :
          (/\ c \notin DOMAIN calls'
           /\ calls[c].inv # 0
           /\ invocations[calls[c].inv].closed
           /\ calls[c].pos = FrameLen * Len(invocations[calls[c].inv].out)
           /\ calls[c].nextChunk # NoChunk
           /\ log' = log)
            => /\ calls' = EmptyMap
               /\ Cardinality(DOMAIN timers') = 1
               /\ \A t \in DOMAIN timers' :
                    /\ timers'[t].chunkIndex = calls[c].nextChunk
                    /\ timers'[t].sessionId = invocations[calls[c].inv].sessionId
                    /\ timers'[t].sessionId # NoSession
                    /\ timers'[t].retryCount = 0
                    /\ timers'[t].left = NextChunkDelay
     /\ \A t \in DOMAIN timers :
          (t \notin DOMAIN timers' /\ timers[t].left = 0)
            => \E c \in DOMAIN calls' :
                 /\ c \notin DOMAIN calls
                 /\ calls'[c].chunkIndex = timers[t].chunkIndex
                 /\ calls'[c].sessionId = timers[t].sessionId
                 /\ calls'[c].retryCount = timers[t].retryCount]_vars

\* The request for a next chunk is on its way with retryCount 0 after the
\* chunk before had been retried
C22_Witness ==
  \E c \in DOMAIN calls :
    /\ calls[c].chunkIndex >= 1
    /\ calls[c].retryCount = 0
    /\ calls[c].sessionId # NoSession
    /\ calls[c].inv = 0
    /\ log.retried
    /\ log.curRequests = 1


\* C23: no category list of liveResults holds a name twice, and applying
\* a test_complete update that was applied before changes nothing: merging
\* a result the list holds gives the same list.
C23_LiveResultsHaveNoDuplicate ==
  progressState.present =>
    \A cat \in Categories :
      \A list \in {progressState.liveResults[cat]} :
        /\ NoDuplicateNames(list)
        /\ \A k \in 1..Len(list) : MergeResult(list, list[k]) = list

\* A test_complete update for a name already shown was applied (the chunk
\* was retried) and the lists are still shown
C23_Witness ==
  /\ log.replaced
  /\ progressState.present
  /\ \E cat \in Categories : Len(progressState.liveResults[cat]) >= 2


\* The test_start and test_complete updates of a stream, in order
CheckEvents(out) ==
  SelectSeq(out, LAMBDA u : u.type \in {"test_start", "test_complete"})

IsPrefix(s, t) == Len(s) <= Len(t) /\ SubSeq(t, 1, Len(s)) = s

\* C26: while a sessionId has an entry in the store, the result list of
\* each category of the entry only grows at its end: over every step the
\* list before is a prefix of the list after.
C26_StoredResultsOnlyGrow ==
  [][\A sid \in (DOMAIN sessions) \cap (DOMAIN sessions') :
       \A cat \in Categories :
         IsPrefix(heap[sessions[sid]].results[cat],
                  heap'[sessions'[sid]].results[cat])]_vars


C28_ProgressPercentage ==
  /\ \A v \in DOMAIN invocations :
       ValidChunk(invocations[v].chunkIndex) =>
         LET out == invocations[v].out
             c == invocations[v].chunkIndex
         IN /\ Len(out) >= 1
            /\ out[1].type = "progress"
            /\ out[1].currentTest = c + 1
            /\ out[1].progress = <<0, 14, 29, 43, 57, 71, 86>>[c + 1]
            /\ 200 * c - 7 < 14 * out[1].progress
            /\ 14 * out[1].progress <= 200 * c + 7
            /\ out[1].sessionId = invocations[v].sessionId
            /\ \A k \in 2..Len(out) : out[k].type # "progress"
  /\ \A v, w \in DOMAIN invocations :
       (/\ ValidChunk(invocations[v].chunkIndex)
        /\ ValidChunk(invocations[w].chunkIndex)
        /\ invocations[v].chunkIndex <= invocations[w].chunkIndex)
         => invocations[v].out[1].progress <= invocations[w].out[1].progress

\* Two streams for chunk 2 (a chunk processed again) and one percentage
C28_Witness ==
  \E v, w \in DOMAIN invocations :
    /\ v # w
    /\ invocations[v].chunkIndex = 2
    /\ invocations[w].chunkIndex = 2
    /\ invocations[v].sessionId = invocations[w].sessionId
    /\ invocations[v].out[1].progress = 29
    /\ invocations[w].out[1].progress = 29


\* The positions of the terminal updates of a stream
TerminalPositions(out) ==
  {k \in 1..Len(out) : out[k].type \in {"chunk_complete", "complete", "error"}}

C30_RunReachesScorecard ==
  /\ [](\A u \in Emitted("chunk_complete") : ValidChunk(u.nextChunk))
  /\ isRunning ~> (scorecard.present /\ ~isRunning)

\* A run has ended with a scorecard although budget exits left checks out
C30_Witness ==
  /\ scorecard.present
  /\ ~isRunning
  /\ log.skipped # {}
  /\ log.requested = 0..(Len(TEST_CHUNKS) - 1)


\* The names configured in TEST_CHUNKS for the chunks of a category
ConfiguredNames(cat) ==
  UNION {SeqRange(TEST_CHUNKS[k].tests) :
           k \in {j \in 1..Len(TEST_CHUNKS) : TEST_CHUNKS[j].category = cat}}

\* C31: the categories of a scorecard the page has adopted hold one result
\* for every name configured in TEST_CHUNKS for the category, and no
\* other result.
C31_ScorecardHoldsEveryCheckOnce ==
  scorecard.present =>
    \A cat \in Categories :
      /\ NoDuplicateNames(scorecard.value.categories[cat])
      /\ SeqRange(NamesOf(scorecard.value.categories[cat])) = ConfiguredNames(cat)


\* C32: every run ends: isRunning becomes false again; within a run the
\* chunk index of a request is never lower than that of the request
\* before, every retryCount is in 0..MAX_RETRIES, and no chunk index is
\* requested more than MAX_RETRIES + 1 times.
C32_RunTerminates ==
  /\ [][(runs' = runs /\ log.curChunk # NoChunk)
          => log'.curChunk >= log.curChunk]_vars
  /\ [](/\ \A c \in DOMAIN calls : calls[c].retryCount \in 0..MAX_RETRIES
        /\ \A t \in DOMAIN timers : timers[t].retryCount \in 0..MAX_RETRIES
        /\ log.curRequests <= MAX_RETRIES + 1)
  /\ isRunning ~> ~isRunning

\* A run has ended after the fourth request for a chunk index after the
\* first failed.
C32_Witness ==
  /\ ~isRunning
  /\ runs > 0
  /\ log.curChunk > 0
  /\ log.failedChunk = log.curChunk
  /\ log.curRequests = MAX_RETRIES + 1
  /\ log.readErrors > 0


\* C33: when isRunning becomes false, the page shows a scorecard, or an
\* error update was shown in the run, or the exhausted retries were
\* reported.
C33_NeverStopsSilently ==
  [][(isRunning /\ ~isRunning')
       => \/ scorecard'.present
          \/ "error" \in log'.appliedTypes
          \/ log'.failedChunk # NoChunk]_vars


\* C34: two requests that were sent without a sessionId are served under
\* different identifiers and with different SessionData objects.
C34_GeneratedIdsAreDistinct ==
  \A c, d \in DOMAIN calls :
    (/\ c # d
     /\ calls[c].sessionId = NoSession
     /\ calls[d].sessionId = NoSession
     /\ calls[c].inv # 0
     /\ calls[d].inv # 0)
      => /\ invocations[calls[c].inv].sessionId # invocations[calls[d].inv].sessionId
         /\ \/ invocations[calls[c].inv].obj # invocations[calls[d].inv].obj
            \/ invocations[calls[c].inv].obj = 0


\* C35: a request whose chunk value is an index without a configured chunk
\* (below 0 or above 6) gets a stream that carries no update and is
\* closed, and serving it leaves the store and every SessionData object
\* as they were.
C35_UnknownChunkIsSilent ==
  [][\A v \in DOMAIN invocations' :
       (/\ ~ValidChunk(invocations'[v].chunkIndex)
        /\ invocations'[v].chunkIndex # ArrayProperty)
         => /\ invocations'[v].out = <<>>
            /\ invocations'[v].closed
            /\ invocations'[v].pc = "done"
            /\ v \notin DOMAIN invocations
                 => (sessions' = sessions /\ heap' = heap)]_vars

\* A request for the chunk value 7 was served while the session of another
\* request was stored with a result.
C35_Witness ==
  /\ \E sid \in DOMAIN sessions : \E cat \in Categories :
       heap[sessions[sid]].results[cat] # <<>>
  /\ \E v \in DOMAIN invocations :
       /\ invocations[v].chunkIndex = Len(TEST_CHUNKS)
       /\ invocations[v].closed
       /\ invocations[v].out = <<>>


\* The store entry of an identifier: whether it exists, and the SessionData
\* object it holds with its content
Entry(ss, h, sid) ==
  IF sid \in DOMAIN ss THEN <<ss[sid], h[ss[sid]]>> ELSE <<>>

\* C36: a step changes, adds or deletes the store entry of an identifier
\* only if the invocation that took the step (it was started, went on, or
\* ended in the step) serves that identifier.
C36_OtherSessionsUntouched ==
  [][\A sid \in DOMAIN sessions \cup DOMAIN sessions' :
       Entry(sessions', heap', sid) # Entry(sessions, heap, sid)
         => \E v \in DOMAIN invocations \cup DOMAIN invocations' :
              \/ /\ v \notin DOMAIN invocations
                 /\ invocations'[v].sessionId = sid
              \/ /\ v \notin DOMAIN invocations'
                 /\ invocations[v].sessionId = sid
                 /\ invocations[v].pc # "done"
              \/ /\ v \in DOMAIN invocations \cap DOMAIN invocations'
                 /\ invocations[v].sessionId = sid
                 /\ invocations'[v].sessionId = sid
                 /\ <<invocations'[v].pc, invocations'[v].i, invocations'[v].out>>
                      # <<invocations[v].pc, invocations[v].i, invocations[v].out>>]_vars

\* The complete of one session was emitted and its entry deleted while the
\* entry of another session stays, with a result.
C36_Witness ==
  \E a \in log.completeFor : \E b \in DOMAIN sessions :
    /\ a # b
    /\ a \notin DOMAIN sessions
    /\ \E cat \in Categories : heap[sessions[b]].results[cat] # <<>>


C38_SameChecksInBothEndpoints ==
  (/\ scorecard.present
   /\ log.single.present
   /\ log.single.clean
   /\ env.pageOk
   /\ env.throws = {}
   /\ \A t \in AllTests : env.score[t] > 0)
    => \A cat \in Categories :
         SeqRange(NamesOf(log.single.value.categories[cat]))
           = SeqRange(NamesOf(scorecard.value.categories[cat]))


\* C39: every stream of the streaming endpoint that was not cancelled ends
\* with exactly one terminal update, complete with the scorecard and progress
\* 100 or error with a message, which is its last update before the close;
\* the progress percentages never decrease; and each category_start is
\* followed by the category_complete of its category before the next
\* category_start and before complete.
C39_StreamIsWellFormed ==
  LET s == log.stream
      out == s.out
      Terminal(u) == u.type \in {"complete", "error"}
  IN /\ \A i \in 1..Len(out) :
          Terminal(out[i]) =>
            /\ i = Len(out)
            /\ s.closed
            /\ out[i].message
            /\ out[i].type = "complete" =>
                 out[i].progress = 100 /\ out[i].overallScore # Absent
     /\ (s.closed /\ ~s.cancelled) =>
          Len(out) > 0 /\ Terminal(out[Len(out)])
     /\ \A i, j \in 1..Len(out) :
          (i < j /\ out[i].progress # Absent /\ out[j].progress # Absent) =>
            out[i].progress <= out[j].progress
     /\ \A i, k \in 1..Len(out) :
          (/\ i < k
           /\ out[i].type = "category_start"
           /\ out[k].type \in {"category_start", "complete"}) =>
            \E j \in (i + 1)..(k - 1) :
               /\ out[j].type = "category_complete"
               /\ out[j].category = out[i].category

====
